---- MODULE Spec2Model ----
(***************************************************************************)
(* Model of lps_utils.quantities / lps_utils.unity: quantities carrying a   *)
(* magnitude, a unity, a prefix and a power, and the arithmetic that        *)
(* derives new dimensions.                                                  *)
(*                                                                          *)
(* Numbers.  Python floats are modelled as exact real numbers of the form   *)
(*     (n / d) * 2^e[1] * 3^e[2] * 5^e[3] * 127^e[4] * 463^e[5] * pi^e[6]   *)
(* (every conversion factor of unity.py is such a number), kept in a        *)
(* canonical form so that float equality is structural equality.  A value  *)
(* written as a float literal is an IEEE binary64 number (sign, mantissa,   *)
(* exponent) and its operations round to nearest-even; overflow to the      *)
(* infinities is not modelled.                                              *)
(***************************************************************************)
EXTENDS Integers, Sequences, FiniteSets, TLC

(***************************************************************************)
(* Bounds of the model                                                      *)
(***************************************************************************)
\* magnitudes are drawn from -MaxMag .. MaxMag
MaxMag == 2
\* powers are drawn from -1 .. MaxPower
MaxPower == 2

(***************************************************************************)
(* Exact arithmetic                                                         *)
(***************************************************************************)
Primes == <<2, 3, 5, 127, 463>>
NPrimes == Len(Primes)
PiIx == NPrimes + 1
ZeroExp == <<0, 0, 0, 0, 0, 0>>

Abs(i) == IF i < 0 THEN -i ELSE i
Min(a, b) == IF a < b THEN a ELSE b

RECURSIVE Gcd(_, _)
Gcd(a, b) == IF b = 0 THEN a ELSE Gcd(b, a % b)

RECURSIVE IPow(_, _)
IPow(b, k) == IF k <= 0 THEN 1 ELSE b * IPow(b, k - 1)

\* multiplicity of the prime p in the positive integer n
RECURSIVE Mult(_, _)
Mult(n, p) == IF n % p = 0 THEN 1 + Mult(n \div p, p) ELSE 0

\* n with every factor of Primes[1..i] removed
RECURSIVE Strip(_, _)
Strip(n, i) == IF i = 0 THEN n
               ELSE Strip(n \div IPow(Primes[i], Mult(n, Primes[i])), i - 1)

NZero == [n |-> 0, d |-> 1, e |-> ZeroExp]

\* sn * (rn / rd) in lowest terms, with the exponents of the primes taken
\* out of an and ad added to e
Reduced(sn, an, ad, rn, rd, e) ==
    [n |-> sn * (rn \div Gcd(rn, rd)),
     d |-> rd \div Gcd(rn, rd),
     e |-> [i \in 1..PiIx |->
              IF i = PiIx THEN e[i]
              ELSE e[i] + Mult(an, Primes[i]) - Mult(ad, Primes[i])]]

\* canonical form of (n / d) * prod Primes[i]^e[i] * pi^e[PiIx], d # 0
Norm(n, d, e) ==
    IF n = 0 THEN NZero
    ELSE Reduced(IF (n < 0) = (d < 0) THEN 1 ELSE -1, Abs(n), Abs(d),
                 Strip(Abs(n), NPrimes), Strip(Abs(d), NPrimes), e)

NInt(k) == Norm(k, 1, ZeroExp)
NFrac(a, b) == Norm(a, b, ZeroExp)
NOne == [n |-> 1, d |-> 1, e |-> ZeroExp]
NPi == [n |-> 1, d |-> 1, e |-> <<0, 0, 0, 0, 0, 1>>]

NIsZero(a) == a.n = 0
NNeg(a) == [a EXCEPT !.n = -a.n]
NAbs(a) == [a EXCEPT !.n = Abs(a.n)]

NMul(a, b) ==
    IF a.n = 0 \/ b.n = 0 THEN NZero
    ELSE Norm(a.n * b.n, a.d * b.d, [i \in 1..PiIx |-> a.e[i] + b.e[i]])

\* a / b for b # 0
NDiv(a, b) ==
    IF a.n = 0 THEN NZero
    ELSE Norm(a.n * b.d, a.d * b.n, [i \in 1..PiIx |-> a.e[i] - b.e[i]])

\* a ** k for an integer k (a # 0 when k < 0)
NPow(a, k) ==
    IF k = 0 THEN NOne
    ELSE IF a.n = 0 THEN NZero
    ELSE IF k > 0
         THEN [n |-> IPow(a.n, k), d |-> IPow(a.d, k),
               e |-> [i \in 1..PiIx |-> a.e[i] * k]]
         ELSE [n |-> (IF a.n < 0 /\ (-k) % 2 = 1 THEN -1 ELSE 1) * IPow(a.d, -k),
               d |-> IPow(Abs(a.n), -k),
               e |-> [i \in 1..PiIx |-> a.e[i] * k]]

\* a float the model does not represent: a sum of two numbers that carry
\* different powers of pi, a root that is not of this form
NaV == [n |-> 1, d |-> 0, e |-> ZeroExp]

\* the least k >= i with k * k >= n
RECURSIVE RootFrom(_, _)
RootFrom(n, i) == IF i * i >= n THEN i ELSE RootFrom(n, i + 1)
IsSquare(n) == n >= 0 /\ RootFrom(n, 0) * RootFrom(n, 0) = n
\* a ** 0.5 for a >= 0
NSqrt(a) ==
    IF a.n = 0 THEN NZero
    ELSE IF IsSquare(a.n) /\ IsSquare(a.d) /\ \A i \in 1..PiIx : a.e[i] % 2 = 0
    THEN [n |-> RootFrom(a.n, 0), d |-> RootFrom(a.d, 0),
          e |-> [i \in 1..PiIx |-> a.e[i] \div 2]]
    ELSE NaV

\* the exponents two numbers of the same power of pi have in common
MinExp(a, b) ==
    [i \in 1..PiIx |-> IF i = PiIx THEN a.e[i] ELSE Min(a.e[i], b.e[i])]
\* prod Primes[j]^(x.e[j] - c[j]) over j in 1..i
RECURSIVE Scale(_, _, _)
Scale(x, c, i) == IF i = 0 THEN 1
                  ELSE IPow(Primes[i], x.e[i] - c[i]) * Scale(x, c, i - 1)

NAdd(a, b) ==
    IF a.n = 0 THEN b
    ELSE IF b.n = 0 THEN a
    ELSE IF a.e[PiIx] # b.e[PiIx] THEN NaV
    ELSE Norm(a.n * b.d * Scale(a, MinExp(a, b), NPrimes)
                + b.n * a.d * Scale(b, MinExp(a, b), NPrimes),
              a.d * b.d, MinExp(a, b))

NSub(a, b) == NAdd(a, NNeg(b))
Pow10(k) == [n |-> 1, d |-> 1, e |-> <<k, 0, k, 0, 0, 0>>]
Pow2(k) == [n |-> 1, d |-> 1, e |-> <<k, 0, 0, 0, 0, 0>>]

\* integer numerator and denominator of a number that carries no power of pi
RECURSIVE Up(_, _)
Up(a, i) == IF i = 0 THEN 1
            ELSE IPow(Primes[i], IF a.e[i] > 0 THEN a.e[i] ELSE 0) * Up(a, i - 1)
RECURSIVE Dn(_, _)
Dn(a, i) == IF i = 0 THEN 1
            ELSE IPow(Primes[i], IF a.e[i] < 0 THEN -a.e[i] ELSE 0) * Dn(a, i - 1)
NumOf(a) == a.n * Up(a, NPrimes)
DenOf(a) == a.d * Dn(a, NPrimes)
\* a is an integer
Integral(a) == a.e[PiIx] = 0 /\ DenOf(a) = 1

\* a ** b for an exponent b that is k or k / 2 for an integer k (a # 0 when
\* b < 0); a negative a has no float for its root
NFloatPow(a, b) ==
    IF b.e[PiIx] # 0 \/ DenOf(b) \notin {1, 2} THEN NaV
    ELSE IF DenOf(b) = 1 THEN NPow(a, NumOf(b))
    ELSE IF a.n < 0 \/ NSqrt(a) = NaV THEN NaV
    ELSE NPow(NSqrt(a), NumOf(b))

\* rational enclosure of pi, used only to order numbers that carry
\* different powers of pi
PiLow == [n |-> 157, d |-> 1, e |-> <<-1, 0, -2, 0, 0, 0>>]
PiHigh == [n |-> 11, d |-> 7, e |-> <<1, 0, 0, 0, 0, 0>>]
\* the number a = q * pi^k with p in the place of pi
Enclose(a, p) == NMul([a EXCEPT !.e[PiIx] = 0], NPow(p, a.e[PiIx]))
RatLt(a, b) == NumOf(a) * DenOf(b) < NumOf(b) * DenOf(a)

\* a < 1 for a positive number a = q * pi^k, decided by the enclosure of pi
BelowOne(a) ==
    IF a.e[PiIx] = 0 THEN RatLt(a, NOne)
    ELSE IF RatLt(Enclose(a, IF a.e[PiIx] > 0 THEN PiHigh ELSE PiLow), NOne) THEN TRUE
    ELSE CHOOSE v \in {FALSE} :
             RatLt(NOne, Enclose(a, IF a.e[PiIx] > 0 THEN PiLow ELSE PiHigh))

\* bounds of 1000 * log2 of a positive number, from bounds of the logarithms
\* of the primes and of pi
LogLow  == <<1000, 1584, 2321, 6988, 8854, 1651>>
LogHigh == <<1000, 1585, 2322, 6989, 8855, 1652>>
RECURSIVE FloorLog2(_)
FloorLog2(k) == IF k < 2 THEN 0 ELSE 1 + FloorLog2(k \div 2)
CeilLog2(k) == IF k = IPow(2, FloorLog2(k)) THEN FloorLog2(k) ELSE FloorLog2(k) + 1
RECURSIVE LogSum(_, _, _, _)
LogSum(a, pos, neg, i) ==
    IF i = 0 THEN 0
    ELSE a.e[i] * (IF a.e[i] > 0 THEN pos[i] ELSE neg[i]) + LogSum(a, pos, neg, i - 1)
LogLo(a) == LogSum(a, LogLow, LogHigh, PiIx) + 1000 * FloorLog2(a.n)
                - 1000 * CeilLog2(a.d)
LogHi(a) == LogSum(a, LogHigh, LogLow, PiIx) + 1000 * CeilLog2(a.n)
                - 1000 * FloorLog2(a.d)

\* a < b for positive a and b: by the logarithms when they decide, else exactly
PosLt(a, b) ==
    IF LogHi(a) < LogLo(b) THEN TRUE
    ELSE IF LogLo(a) > LogHi(b) THEN FALSE
    ELSE BelowOne(NDiv(a, b))

\* a < b on floats
FLt(a, b) ==
    IF a = b THEN FALSE
    ELSE IF a.n <= 0 /\ b.n >= 0 THEN TRUE
    ELSE IF a.n >= 0 /\ b.n <= 0 THEN FALSE
    ELSE PosLt(IF a.n > 0 THEN a ELSE NAbs(b), IF a.n > 0 THEN b ELSE NAbs(a))

\* x - trunc(q) * m for the rational quotient q = x / m
Remainder(x, m, q) ==
    IF q.e[PiIx] # 0 THEN NaV
    ELSE NSub(x, NMul(NInt((IF q.n < 0 THEN -1 ELSE 1) * (Abs(NumOf(q)) \div DenOf(q))),
                      m))
\* math.fmod(x, m) for m > 0
Fmod(x, m) == IF x.n = 0 THEN NZero ELSE Remainder(x, m, NDiv(x, m))

(***************************************************************************)
(* Python float: IEEE 754 binary64, round to nearest, ties to even.        *)
(* A binary64 is sgn * m * 2^x with the mantissa m a natural number of     *)
(* Precision bits, kept as a sequence of limbs, least significant first;   *)
(* zero has the empty mantissa.  Magnitudes stay far inside the exponent   *)
(* range of binary64, whose ends are not modelled.                         *)
(***************************************************************************)
Precision == 53
LimbBits == 13
LimbBase == 2^LimbBits

RECURSIVE Trim(_)
Trim(a) == IF a = <<>> THEN a
           ELSE IF a[Len(a)] = 0 THEN Trim(SubSeq(a, 1, Len(a) - 1)) ELSE a
RECURSIVE BigOf(_)
BigOf(k) == IF k = 0 THEN <<>> ELSE <<k % LimbBase>> \o BigOf(k \div LimbBase)
Limb(a, i) == IF i <= Len(a) THEN a[i] ELSE 0

\* a + b + c from limb i on
RECURSIVE AddFrom(_, _, _, _)
AddFrom(a, b, i, c) ==
    IF i > Len(a) /\ i > Len(b) THEN BigOf(c)
    ELSE <<(Limb(a, i) + Limb(b, i) + c) % LimbBase>>
         \o AddFrom(a, b, i + 1, (Limb(a, i) + Limb(b, i) + c) \div LimbBase)
BigAdd(a, b) == AddFrom(a, b, 1, 0)

\* a - b - c from limb i on, for a >= b
RECURSIVE SubFrom(_, _, _, _)
SubFrom(a, b, i, c) ==
    IF i > Len(a) THEN <<>>
    ELSE <<(Limb(a, i) - Limb(b, i) - c + LimbBase) % LimbBase>>
         \o SubFrom(a, b, i + 1, IF Limb(a, i) - Limb(b, i) - c < 0 THEN 1 ELSE 0)
BigSub(a, b) == Trim(SubFrom(a, b, 1, 0))

RECURSIVE LtFrom(_, _, _)
LtFrom(a, b, i) == IF i = 0 THEN FALSE
                   ELSE IF a[i] # b[i] THEN a[i] < b[i]
                   ELSE LtFrom(a, b, i - 1)
BigLt(a, b) == IF Len(a) # Len(b) THEN Len(a) < Len(b) ELSE LtFrom(a, b, Len(a))

\* a * k + c from limb i on, for a limb k
RECURSIVE TimesLimb(_, _, _, _)
TimesLimb(a, k, i, c) ==
    IF i > Len(a) THEN BigOf(c)
    ELSE <<(a[i] * k + c) % LimbBase>>
         \o TimesLimb(a, k, i + 1, (a[i] * k + c) \div LimbBase)
Limbs(n) == [i \in 1..n |-> 0]
ShiftLimbs(a, n) == IF a = <<>> THEN a ELSE Limbs(n) \o a
RECURSIVE MulFrom(_, _, _)
MulFrom(a, b, j) ==
    IF j > Len(b) THEN <<>>
    ELSE BigAdd(TimesLimb(a, b[j], 1, 0), ShiftLimbs(MulFrom(a, b, j + 1), 1))
BigMul(a, b) == IF a = <<>> THEN a ELSE Trim(MulFrom(a, b, 1))

\* a * 2^k
ShiftLeft(a, k) == ShiftLimbs(TimesLimb(a, 2^(k % LimbBits), 1, 0), k \div LimbBits)
\* (c * LimbBase^i + a[1..i]) \div d for a limb d, c < d
RECURSIVE OverLimb(_, _, _, _)
OverLimb(a, d, i, c) ==
    IF i = 0 THEN <<>>
    ELSE OverLimb(a, d, i - 1, (c * LimbBase + a[i]) % d)
         \o <<(c * LimbBase + a[i]) \div d>>
\* a \div 2^k
ShiftRight(a, k) ==
    IF k \div LimbBits >= Len(a) THEN <<>>
    ELSE Trim(OverLimb(SubSeq(a, k \div LimbBits + 1, Len(a)), 2^(k % LimbBits),
                       Len(a) - k \div LimbBits, 0))
RECURSIVE IntBits(_)
IntBits(k) == IF k = 0 THEN 0 ELSE 1 + IntBits(k \div 2)
BitLen(a) == IF a = <<>> THEN 0 ELSE LimbBits * (Len(a) - 1) + IntBits(a[Len(a)])
IsOdd(a) == a # <<>> /\ a[1] % 2 = 1

MinMantissa == ShiftLeft(<<1>>, Precision - 1)
MaxMantissa == BigSub(ShiftLeft(<<1>>, Precision), <<1>>)
MkDouble(sgn, m, x) == [sgn |-> sgn, m |-> m, x |-> x]
DZero == MkDouble(1, <<>>, 0)
IsDouble(v) == "m" \in DOMAIN v

\* q * 2^x rounded up to the next mantissa when up
RoundedUp(sgn, q, x, up) ==
    IF ~up THEN MkDouble(sgn, q, x)
    ELSE IF q = MaxMantissa THEN MkDouble(sgn, MinMantissa, x + 1)
    ELSE MkDouble(sgn, BigAdd(q, <<1>>), x)
\* (q * 2^k + rest) * 2^x, and a little more when sticky, to the nearest
\* mantissa q or q + 1, the even one in a tie
Nearest(sgn, q, rest, k, x, sticky) ==
    RoundedUp(sgn, q, x + k,
              \/ BigLt(ShiftLeft(<<1>>, k), BigAdd(rest, rest))
              \/ /\ ShiftLeft(<<1>>, k) = BigAdd(rest, rest)
                 /\ (sticky \/ IsOdd(q)))
RoundAt(sgn, m, x, sticky, k) ==
    IF k <= 0 THEN MkDouble(sgn, ShiftLeft(m, -k), x + k)
    ELSE Nearest(sgn, ShiftRight(m, k), BigSub(m, ShiftLeft(ShiftRight(m, k), k)),
                 k, x, sticky)
\* the binary64 nearest to sgn * m * 2^x, and a little more when sticky
Round(sgn, m, x, sticky) ==
    IF m = <<>> THEN DZero ELSE RoundAt(sgn, m, x, sticky, BitLen(m) - Precision)

\* float(k) of an int k
FromInt(k) == Round(IF k < 0 THEN -1 ELSE 1, BigOf(Abs(k)), 0, FALSE)

\* a * b
RMul(a, b) == Round(a.sgn * b.sgn, BigMul(a.m, b.m), a.x + b.x, FALSE)

\* the int of a natural number below 2^31
RECURSIVE IntOf(_)
IntOf(a) == IF a = <<>> THEN 0 ELSE a[1] + LimbBase * IntOf(Tail(a))
\* the leading TopBits bits of a mantissa estimate a limb of a quotient
TopBits == 17
Top(a) == IntOf(ShiftRight(a, Precision - TopBits))
\* r \div d for r < d * LimbBase, which is the estimate e or e - 1
Digit(r, d, e) ==
    IF e = 0 THEN 0
    ELSE IF BigLt(r, TimesLimb(d, e, 1, 0)) THEN e - 1 ELSE e
\* the quotient q and the dividend r by the mantissa d, after the limb g of
\* the quotient
WithDigit(qr, d, g) ==
    <<<<g>> \o qr[1],
      ShiftLimbs(IF g = 0 THEN qr[2] ELSE BigSub(qr[2], TimesLimb(d, g, 1, 0)), 1)>>
QuotientLimb(qr, d) == WithDigit(qr, d, Digit(qr[2], d, Top(qr[2]) \div Top(d)))
\* n more limbs of the quotient
RECURSIVE DivLimbs(_, _, _)
DivLimbs(qr, d, n) == IF n = 0 THEN qr ELSE DivLimbs(QuotientLimb(qr, d), d, n - 1)
\* the limbs of a quotient after its integer part
QuotientLimbs == 5
RoundQuotient(sgn, qr, x) == Round(sgn, Trim(qr[1]), x, qr[2] # <<>>)
\* a / b for b # 0
RDiv(a, b) ==
    IF a.m = <<>> THEN DZero
    ELSE RoundQuotient(a.sgn * b.sgn, DivLimbs(<<<<>>, a.m>>, b.m, QuotientLimbs + 1),
                       a.x - b.x - QuotientLimbs * LimbBits)

\* |a| < |b|
MagLt(a, b) ==
    IF b.m = <<>> THEN FALSE
    ELSE IF a.m = <<>> THEN TRUE
    ELSE IF a.x # b.x THEN a.x < b.x
    ELSE BigLt(a.m, b.m)
\* a < b
RLt(a, b) ==
    IF a.sgn # b.sgn THEN a.sgn < b.sgn
    ELSE IF a.sgn = 1 THEN MagLt(a, b) ELSE MagLt(b, a)

\* |a| - |b| for |a| >= |b|, and |a| + |b|, with the sign sgn
MagDiff(sgn, a, b) ==
    Round(sgn, BigSub(ShiftLeft(a.m, a.x - Min(a.x, b.x)),
                      ShiftLeft(b.m, b.x - Min(a.x, b.x))), Min(a.x, b.x), FALSE)
MagSum(sgn, a, b) ==
    Round(sgn, BigAdd(ShiftLeft(a.m, a.x - Min(a.x, b.x)),
                      ShiftLeft(b.m, b.x - Min(a.x, b.x))), Min(a.x, b.x), FALSE)
RNeg(a) == IF a.m = <<>> THEN a ELSE [a EXCEPT !.sgn = -a.sgn]
\* a + b
RAdd(a, b) ==
    IF a.m = <<>> THEN b
    ELSE IF b.m = <<>> THEN a
    ELSE IF a.sgn = b.sgn THEN MagSum(a.sgn, a, b)
    ELSE IF MagLt(a, b) THEN MagDiff(b.sgn, b, a)
    ELSE MagDiff(a.sgn, a, b)
RSub(a, b) == RAdd(a, RNeg(b))

\* the binary64 values next to a non-zero a, away from zero and towards it
Outward(a) == RoundedUp(a.sgn, a.m, a.x, TRUE)
Inward(a) ==
    IF a.m = MinMantissa THEN MkDouble(a.sgn, MaxMantissa, a.x - 1)
    ELSE MkDouble(a.sgn, BigSub(a.m, <<1>>), a.x)

\* math.pi, the binary64 nearest to pi: 7074237752028440 * 2^-51
PiDouble == MkDouble(1, <<3352, 545, 7893, 4675, 1>>, -51)

\* math.fmod(x, m) for m > 0 and |x| < 2 m, where the difference is exact
Fmod64(x, m) ==
    IF MagLt(x, m) THEN x
    ELSE IF MagLt(x, RAdd(m, m)) THEN RSub(x, IF x.sgn = 1 THEN m ELSE RNeg(m))
    ELSE NaV

(***************************************************************************)
(* unity.py: Prefix and the unity enumerations                              *)
(***************************************************************************)
PrefixNames == <<"BASE", "y", "z", "a", "f", "p", "n", "u", "m", "k", "M", "G",
                 "T", "P", "E", "Z", "Y", "Ki", "Mi", "Gi", "Ti", "Pi", "Ei",
                 "Zi", "Yi">>
Prefix == {PrefixNames[i] : i \in 1..Len(PrefixNames)}
PrefixValue(p) == CHOOSE v \in 0..(Len(PrefixNames) - 1) : PrefixNames[v + 1] = p

\* the list of Prefix.as_float, 1E-24 as <<10, -24>> and 2**10 as <<2, 10>>
PrefixConvertList ==
    <<<<10, 0>>, <<10, -24>>, <<10, -21>>, <<10, -18>>, <<10, -15>>, <<10, -12>>,
      <<10, -9>>, <<10, -6>>, <<10, -3>>, <<10, 3>>, <<10, 6>>, <<10, 9>>,
      <<10, 12>>, <<10, 15>>, <<10, 18>>, <<10, 21>>, <<10, 24>>, <<2, 10>>,
      <<2, 20>>, <<2, 30>>, <<2, 40>>, <<2, 50>>, <<2, 60>>, <<2, 70>>, <<2, 80>>>>
PowerOf(be) == IF be[1] = 10 THEN Pow10(be[2]) ELSE Pow2(be[2])
as_float(p) == PowerOf(PrefixConvertList[PrefixValue(p) + 1])

\* the members of each unity enumeration, in the order of their values
UnityNames ==
    [Distance        |-> <<"M", "YD", "NM", "FT">>,
     Time            |-> <<"S", "M", "H">>,
     Frequency       |-> <<"HZ", "RPM">>,
     Speed           |-> <<"M_S", "KM_H", "KT">>,
     Acceleration    |-> <<"M_S2", "KM_H2", "KT_H">>,
     Angle           |-> <<"RAD", "DEG">>,
     AngularVelocity |-> <<"RAD_S", "DEG_S">>,
     Density         |-> <<"G_CM3", "KG_M3">>,
     Sensitivity     |-> <<"DB_V_P_UPA">>]
UnityTypes == DOMAIN UnityNames
U(t, name) == [type |-> t, name |-> name]
UnitiesOf(t) == {U(t, UnityNames[t][i]) : i \in 1..Len(UnityNames[t])}
Unity == UNION {UnitiesOf(t) : t \in UnityTypes}
UnityValue(u) ==
    CHOOSE v \in 0..(Len(UnityNames[u.type]) - 1) : UnityNames[u.type][v + 1] = u.name

\* the convert_list of each enumeration, every factor written by its
\* exponents of 2, 3, 5, 127, 463 and pi:
\*   Distance        1, 0.9144, 1852, 0.3048
\*   Time            1, 60, 3600
\*   Frequency       1, 1/60
\*   Speed           1, 1000.0/3600, 1852.0/3600
\*   Acceleration    1, 1000.0/(3600*3600), 1852.0/(3600*3600)
\*   Angle           1, math.pi/180
\*   AngularVelocity 1, math.pi/180
\*   Density         1, 1e-3
\*   Sensitivity     1
UnityConvertList ==
    [Distance        |-> <<ZeroExp, <<-1, 2, -4, 1, 0, 0>>, <<2, 0, 0, 0, 1, 0>>,
                           <<-1, 1, -4, 1, 0, 0>>>>,
     Time            |-> <<ZeroExp, <<2, 1, 1, 0, 0, 0>>, <<4, 2, 2, 0, 0, 0>>>>,
     Frequency       |-> <<ZeroExp, <<-2, -1, -1, 0, 0, 0>>>>,
     Speed           |-> <<ZeroExp, <<-1, -2, 1, 0, 0, 0>>, <<-2, -2, -2, 0, 1, 0>>>>,
     Acceleration    |-> <<ZeroExp, <<-5, -4, -1, 0, 0, 0>>, <<-6, -4, -4, 0, 1, 0>>>>,
     Angle           |-> <<ZeroExp, <<-2, -2, -1, 0, 0, 1>>>>,
     AngularVelocity |-> <<ZeroExp, <<-2, -2, -1, 0, 0, 1>>>>,
     Density         |-> <<ZeroExp, <<-3, 0, -3, 0, 0, 0>>>>,
     Sensitivity     |-> <<ZeroExp>>]
convert_to_base(u) ==
    [n |-> 1, d |-> 1, e |-> UnityConvertList[u.type][UnityValue(u) + 1]]

(***************************************************************************)
(* Python values: quantities, floats, booleans and raised exceptions        *)
(***************************************************************************)
NoUnity == [type |-> "", name |-> ""]
MkQty(cls, mag, unity, prefix, power) ==
    [k |-> "qty", cls |-> cls, mag |-> mag, unity |-> unity, prefix |-> prefix,
     power |-> power, b |-> FALSE]
MkNum(x) ==
    [k |-> "num", cls |-> "float", mag |-> x, unity |-> NoUnity, prefix |-> "",
     power |-> 0, b |-> FALSE]
MkBool(v) ==
    [k |-> "bool", cls |-> "bool", mag |-> NZero, unity |-> NoUnity, prefix |-> "",
     power |-> 0, b |-> v]
Raise(name) ==
    [k |-> "exc", cls |-> name, mag |-> NZero, unity |-> NoUnity, prefix |-> "",
     power |-> 0, b |-> FALSE]
Unmodelled ==
    [k |-> "unmodelled", cls |-> "float", mag |-> NaV, unity |-> NoUnity, prefix |-> "",
     power |-> 0, b |-> FALSE]
MkFloat(x) == IF x = NaV THEN Unmodelled ELSE MkNum(x)
None == [k |-> "none", cls |-> "", mag |-> NZero, unity |-> NoUnity, prefix |-> "",
         power |-> 0, b |-> FALSE]

IsQty(v) == v.k = "qty"
IsNum(v) == v.k = "num"
IsExc(v) == v.k = "exc"
\* evaluation does not continue with v: v is a raised exception or a float
\* outside the number domain of the model
Stops(v) == v.k \in {"exc", "unmodelled"}
Raises(v, name) == v.k = "exc" /\ v.cls = name

\* a float is an exact number of the model (real arithmetic) or a binary64;
\* an operation with a binary64 operand is the binary64 operation
Exact(a, b) == ~IsDouble(a) /\ ~IsDouble(b)
\* a is math.pi times a power of two and a sign, as 2 * math.pi and
\* math.pi / 2.0 are
BinaryPi(a) ==
    /\ ~IsDouble(a) /\ a.e[PiIx] = 1 /\ a.n \in {1, -1} /\ a.d = 1
    /\ \A i \in 2..NPrimes : a.e[i] = 0
\* the binary64 of a: of an exact number, numerator / denominator rounded
\* once, which is the float of an int, of a literal and of a quotient of two
\* ints; of math.pi times a power of two, math.pi with the exponent moved
Binary64(a) ==
    IF IsDouble(a) THEN a
    ELSE IF BinaryPi(a) THEN MkDouble(a.n, PiDouble.m, PiDouble.x + a.e[1])
    ELSE IF DenOf(a) = 1 THEN FromInt(NumOf(a))
    ELSE RDiv(FromInt(NumOf(a)), FromInt(DenOf(a)))
\* float(a): Python finds float.__float__ as it finds every method, which
\* Apply, defined below, models
RECURSIVE Apply(_, _, _)
ToDouble(a) == Apply("__float__", MkNum(a), MkNum(a)).mag
\* a is without a power of pi
Rational(a) == IsDouble(a) \/ a.e[PiIx] = 0
\* a has a binary64 in the model
Roundable(a) == Rational(a) \/ BinaryPi(a)
FIsZero(a) == IF IsDouble(a) THEN a.m = <<>> ELSE NIsZero(a)
\* a < 0
Negative(a) == IF IsDouble(a) THEN a.sgn = -1 ELSE a.n < 0
\* abs(a)
abs(a) == IF IsDouble(a) THEN [a EXCEPT !.sgn = 1] ELSE NAbs(a)
\* the natural number |a| rounded towards zero, for |a| < 2^31
Truncated(a) ==
    IF ~IsDouble(a) THEN Abs(NumOf(a)) \div DenOf(a)
    ELSE IF a.x >= 0 THEN IntOf(ShiftLeft(a.m, a.x))
    ELSE IntOf(ShiftRight(a.m, -a.x))
\* a is a whole number
Whole(a) ==
    IF ~IsDouble(a) THEN DenOf(a) = 1
    ELSE a.x >= 0 \/ ShiftLeft(ShiftRight(a.m, -a.x), -a.x) = a.m
\* math.floor(a) and math.ceil(a): ints
math_floor(a) ==
    NInt(IF Negative(a) THEN -(Truncated(a) + (IF Whole(a) THEN 0 ELSE 1))
         ELSE Truncated(a))
math_ceil(a) ==
    NInt(IF Negative(a) THEN -Truncated(a)
         ELSE Truncated(a) + (IF Whole(a) THEN 0 ELSE 1))
\* math.copysign(a, s) for an int or a float s that is not -0.0
math_copysign(a, s) == IF Negative(s) THEN IF IsDouble(a) THEN RNeg(abs(a)) ELSE NNeg(abs(a))
                       ELSE abs(a)

FloatEq(a, b) == IF Exact(a, b) THEN a = b ELSE ToDouble(a) = ToDouble(b)

\* a <name> b on two exact numbers
ExactApply(name, a, b) ==
    CASE name = "__mul__"     -> MkFloat(NMul(a, b))
      [] name = "__truediv__" -> MkFloat(NDiv(a, b))
      [] name = "__add__"     -> MkFloat(NAdd(a, b))
      [] name = "__sub__"     -> MkFloat(NSub(a, b))
      [] name = "__pow__"     -> MkFloat(NFloatPow(a, b))
      [] name = "=="          -> MkBool(a = b)
      [] name = "!="          -> MkBool(a # b)
      [] OTHER -> MkBool((name \in {"<=", ">="})
                           # FLt(IF name \in {"<", ">="} THEN a ELSE b,
                                 IF name \in {"<", ">="} THEN b ELSE a))

\* a <name> b on two binary64
Binary64Apply(name, a, b) ==
    CASE name = "__mul__"     -> MkNum(RMul(a, b))
      [] name = "__truediv__" -> MkNum(RDiv(a, b))
      [] name = "__add__"     -> MkNum(RAdd(a, b))
      [] name = "__sub__"     -> MkNum(RSub(a, b))
      [] name = "=="          -> MkBool(a = b)
      [] name = "!="          -> MkBool(a # b)
      [] OTHER -> MkBool((name \in {"<=", ">="})
                           # RLt(IF name \in {"<", ">="} THEN a ELSE b,
                                 IF name \in {"<", ">="} THEN b ELSE a))

\* a <name> b on two floats: float.__mul__, __truediv__, __add__, __sub__,
\* __pow__ and the comparisons; ** is modelled on exact numbers only
FloatApply(name, a, b) ==
    IF name = "__truediv__" /\ FIsZero(b.mag) THEN Raise("ZeroDivisionError")
    ELSE IF name = "__pow__" /\ ~Exact(a.mag, b.mag) THEN Unmodelled
    ELSE IF name = "__pow__" /\ FIsZero(a.mag) /\ b.mag.n < 0
    THEN Raise("ZeroDivisionError")
    ELSE IF Exact(a.mag, b.mag) THEN ExactApply(name, a.mag, b.mag)
    ELSE IF ~(Roundable(a.mag) /\ Roundable(b.mag)) THEN Unmodelled
    ELSE Binary64Apply(name, ToDouble(a.mag), ToDouble(b.mag))

\* the class hierarchy of quantities.py
QuantityClasses == {"Distance", "Time", "Frequency", "Speed", "Acceleration",
                    "Angle", "Bearing", "RelativeBearing", "Latitude", "Longitude",
                    "AngularVelocity", "Density", "Sensitivity"}
Bases(cls) == CASE cls = "Bearing"         -> {"Bearing", "Angle"}
                [] cls = "RelativeBearing" -> {"RelativeBearing", "Bearing", "Angle"}
                [] cls = "Latitude"        -> {"Latitude", "Angle"}
                [] cls = "Longitude"       -> {"Longitude", "Angle"}
                [] OTHER                   -> {cls}
isinstance(v, cls) == IsQty(v) /\ cls \in Bases(v.cls)
\* the unity enumeration a quantity class is declared with
UnityTypeOf(cls) == IF "Angle" \in Bases(cls) THEN "Angle" ELSE cls


(***************************************************************************)
(* Python's evaluation of a binary operator and of a call of get: Apply,    *)
(* defined below, finds the method of the class of the operands.  The       *)
(* methods are written with these operators, as the source writes them with *)
(* *, /, +, -, the comparisons and .get().                                  *)
(***************************************************************************)
\* a * b
Mul(a, b) == Apply("__mul__", a, b)
\* a / b
TrueDiv(a, b) == Apply("__truediv__", a, b)
\* a + b
Add(a, b) == Apply("__add__", a, b)
\* a - b
Sub(a, b) == Apply("__sub__", a, b)
\* a ** b
Pow(a, b) == Apply("__pow__", a, b)
\* a <rel> b
Rels == {"==", "!=", "<", ">", "<=", ">="}
Compare(a, b, rel) == Apply(rel, a, b)
\* the arguments of get
Target(unity, prefix) == [k |-> "target", unity |-> unity, prefix |-> prefix]
\* self.get(unity, prefix)
get(self, unity, prefix) == Apply("get", self, Target(unity, prefix))
\* a reference as the argument of a call
Ref(reference) == [k |-> "reference", reference |-> reference]
\* the calls of the bearing classes: Bearing(a, reference),
\* RelativeBearing(a, reference), Bearing.coerce(a) and the four getters
BearingCalls == {"Bearing", "RelativeBearing", "coerce", "get_eccw_rad", "get_ncw_rad",
                 "get_ccw_rad", "get_cw_rad"}
\* a class as the argument of a call
Class(cls) == [k |-> "class", cls |-> cls]
\* the calls of DMS and of the factories of Angle and its subclasses:
\* DMS.by_degree(a), a.get_degrees(), cls.deg(a), cls.rad(a), cls.dms(a)
DMSCalls == {"by_degree", "get_degrees", "deg", "rad", "dms", "to_string", "by_string"}
\* a call of the bearing classes, of DMS or of a factory on a with one
\* argument or none
Invoke(name, a, b) == Apply(name, a, b)
\* self.get_eccw_rad(), self.get_ncw_rad(), self.get_ccw_rad(),
\* self.get_cw_rad()
get_eccw_rad(self) == Invoke("get_eccw_rad", self, None)
get_ncw_rad(self)  == Invoke("get_ncw_rad", self, None)
get_ccw_rad(self)  == Invoke("get_ccw_rad", self, None)
get_cw_rad(self)   == Invoke("get_cw_rad", self, None)

(***************************************************************************)
(* quantities.py: class Quantity                                            *)
(***************************************************************************)
BASE == "BASE"
RAD == U("Angle", "RAD")
DEG == U("Angle", "DEG")
One == MkNum(NOne)
HalfPi == MkNum([n |-> 1, d |-> 1, e |-> <<-1, 0, 0, 0, 0, 1>>])
TwoPi  == MkNum([n |-> 1, d |-> 1, e |-> <<1, 0, 0, 0, 0, 1>>])

\* type(x) of a unity member and of a quantity, as module-qualified names
EnumClass(u) == <<"lps_unity", u.type>>
QtyClasses(v) == {<<"lps_qty", c>> : c \in Bases(v.cls)}

\* Quantity.__init__, an exception raised while the magnitude was computed
\* propagating
Quantity__init__(cls, magnitude, unity, prefix, power) ==
    IF Stops(magnitude) THEN magnitude
    ELSE MkQty(cls, magnitude.mag, unity, prefix, power)

\* prefix_in.as_float() / prefix_out.as_float() ** power
convert_prefix(prefix_in, prefix_out, power) ==
    MkNum(NDiv(as_float(prefix_in), NPow(as_float(prefix_out), power)))

convert_unity(unity_in, unity_out, power) ==
    IF EnumClass(unity_in) = EnumClass(unity_out)
    THEN MkNum(NPow(NDiv(convert_to_base(unity_in), convert_to_base(unity_out)), power))
    ELSE Raise("UnboundLocalError")

\* Quantity.get converting to the BASE prefix whatever prefix is asked for
Quantity_get_to_base(self, unity, prefix) ==
    Mul(Mul(MkNum(self.mag), convert_unity(self.unity, unity, self.power)),
        convert_prefix(self.prefix, BASE, self.power))

\* Quantity.get
Quantity_get(self, unity, prefix) ==
    Mul(Mul(MkNum(self.mag), convert_unity(self.unity, unity, self.power)),
        convert_prefix(self.prefix, prefix, self.power))

get_rad(self) == get(self, RAD, BASE)
get_deg(self) == get(self, DEG, BASE)

\* the largest get_rad() Latitude.__init__ and Longitude.__init__ accept
Limit(cls) == IF cls = "Latitude" THEN HalfPi.mag ELSE NPi
\* a or b
Or(a, b) == IF Stops(a) THEN a ELSE IF a.b THEN a ELSE b
\* "if out: raise ValueError" at the end of Latitude.__init__ and
\* Longitude.__init__ on the new object self
RaiseIf(out, self) ==
    IF Stops(out) THEN out ELSE IF out.b THEN Raise("ValueError") ELSE self
\* Latitude.__init__ and Longitude.__init__ without the range check
Unchecked(self, limit) == self
\* the range check of Latitude.__init__ and Longitude.__init__
Validated(self, limit) ==
    RaiseIf(Or(Compare(get_rad(self), MkNum(NNeg(limit)), "<"),
               Compare(get_rad(self), MkNum(limit), ">")),
            self)

\* self.__class__(magnitude, unity, prefix, power) for an object of class cls.
\* Bearing and RelativeBearing take (angle, reference) only; Latitude and
\* Longitude validate after Quantity.__init__.
New(cls, magnitude, unity, prefix, power) ==
    IF Stops(magnitude) THEN magnitude
    ELSE IF cls \in {"Bearing", "RelativeBearing"} THEN Raise("TypeError")
    ELSE IF cls \in {"Latitude", "Longitude"}
    THEN Validated(MkQty(cls, magnitude.mag, unity, prefix, power), Limit(cls))
    ELSE Quantity__init__(cls, magnitude, unity, prefix, power)

\* _check_compatibility without the comparison of the powers
_check_compatibility_any_power(self, other) ==
    IF ~IsQty(other) THEN Raise("AttributeError")
    ELSE IF EnumClass(self.unity) \in QtyClasses(other) THEN Raise("UnboundLocalError")
    ELSE MkBool(TRUE)

_check_compatibility(self, other) ==
    IF ~IsQty(other) THEN Raise("AttributeError")
    ELSE IF EnumClass(self.unity) \in QtyClasses(other) THEN Raise("UnboundLocalError")
    ELSE IF self.power # other.power THEN Raise("UnboundLocalError")
    ELSE MkBool(TRUE)

\* a statement sequence "check; return value": the exception of the check,
\* else the value
Seq2(check, value) == IF Stops(check) THEN check ELSE value

\* not v
Not(v) == IF Stops(v) THEN v ELSE MkBool(~v.b)

\* self.get(self.unity, self.prefix) <rel> other.get(self.unity, self.prefix)
CompareGets(self, other, rel) ==
    Compare(get(self, self.unity, self.prefix), get(other, self.unity, self.prefix), rel)

\* the tuple Quantity.__hash__ hashes
HashedTuple(self) ==
    <<self.mag, UnityValue(self.unity), PrefixValue(self.prefix), self.power>>
\* Quantity.__hash__.  The hash of a tuple is represented by the tuple:
\* equal tuples of numbers have one hash, and the tuples of the quantities
\* of this model that differ have different hashes in the interpreter.
Quantity__hash__(self) == [of |-> "tuple", items |-> HashedTuple(self)]
\* hash(a) == hash(b)
SameHash(a, b) == MkBool(Quantity__hash__(a) = Quantity__hash__(b))
Quantity__eq__(self, other) ==
    Seq2(_check_compatibility(self, other), CompareGets(self, other, "=="))
Quantity__ne__(self, other) ==
    Seq2(_check_compatibility(self, other), Not(Quantity__eq__(self, other)))
Quantity__gt__(self, other) ==
    Seq2(_check_compatibility(self, other), CompareGets(self, other, ">"))
Quantity__lt__(self, other) ==
    Seq2(_check_compatibility(self, other), CompareGets(self, other, "<"))
Quantity__ge__(self, other) ==
    Seq2(_check_compatibility(self, other), CompareGets(self, other, ">="))
Quantity__le__(self, other) ==
    Seq2(_check_compatibility(self, other), CompareGets(self, other, "<="))

Quantity__add__(self, other) ==
    Seq2(_check_compatibility(self, other),
         New(self.cls,
             Add(get(self, self.unity, self.prefix), get(other, self.unity, self.prefix)),
             self.unity, self.prefix, self.power))

Quantity__sub__(self, other) ==
    Seq2(_check_compatibility(self, other),
         New(self.cls,
             Sub(get(self, self.unity, self.prefix), get(other, self.unity, self.prefix)),
             self.unity, self.prefix, self.power))

Quantity__mul__(self, other) ==
    IF isinstance(other, self.cls)
    THEN Seq2(_check_compatibility(self, other),
              New(self.cls,
                  Mul(get(self, self.unity, self.prefix),
                      get(other, self.unity, self.prefix)),
                  self.unity, self.prefix, self.power + other.power))
    ELSE IF IsNum(other)
    THEN New(self.cls, Mul(MkNum(self.mag), other), self.unity, self.prefix, self.power)
    ELSE Raise("NotImplementedError")

Quantity__rmul__(self, other) == Mul(self, other)

\* the two returns of Quantity.__truediv__ for an operand of the same class
SameClassQuotient(self, other, quot) ==
    IF self.power = other.power THEN quot
    ELSE New(self.cls, quot, self.unity, self.prefix, self.power - other.power)

\* Quantity.__truediv__ dividing the gets whatever the class of the divisor
Quantity__truediv__any_class(self, other) ==
    IF IsNum(other)
    THEN New(self.cls, TrueDiv(MkNum(self.mag), other), self.unity, self.prefix,
             self.power)
    ELSE Seq2(_check_compatibility(self, other),
              SameClassQuotient(self, other,
                                TrueDiv(get(self, self.unity, self.prefix),
                                        get(other, self.unity, self.prefix))))

Quantity__truediv__(self, other) ==
    IF isinstance(other, self.cls)
    THEN Seq2(_check_compatibility(self, other),
              SameClassQuotient(self, other,
                                TrueDiv(get(self, self.unity, self.prefix),
                                        get(other, self.unity, self.prefix))))
    ELSE IF IsNum(other)
    THEN New(self.cls, TrueDiv(MkNum(self.mag), other), self.unity, self.prefix,
             self.power)
    ELSE Raise("NotImplementedError")

\* abs(magnitude) of a float or an int
builtin_abs(magnitude) ==
    IF IsDouble(magnitude) THEN (IF magnitude.sgn = 1 THEN magnitude ELSE RNeg(magnitude))
    ELSE NAbs(magnitude)
\* Quantity.__abs__
Quantity__abs__(self) ==
    New(self.cls, MkNum(builtin_abs(self.mag)), self.unity, self.prefix, self.power)

Quantity__rtruediv__(self, scale) ==
    New(self.cls, TrueDiv(scale, MkNum(self.mag)), self.unity, self.prefix,
        self.power * (-1))

\* Quantity.__pow__; a quantity whose power is not an integer is no value of
\* the model
Quantity__pow__(self, exponent) ==
    Seq2(Pow(get(self, self.unity, BASE), exponent),
         IF ~Integral(NMul(NInt(self.power), exponent.mag)) THEN Unmodelled
         ELSE New(self.cls, Pow(get(self, self.unity, BASE), exponent), self.unity,
                  BASE, NumOf(NMul(NInt(self.power), exponent.mag))))


(***************************************************************************)
(* quantities.py: the factories and getters the operators use               *)
(***************************************************************************)
Distance_m(m)        == Quantity__init__("Distance", m, U("Distance", "M"), BASE, 1)
Time_s(seconds)      == Quantity__init__("Time", seconds, U("Time", "S"), BASE, 1)
Frequency_hz(hz)     == Quantity__init__("Frequency", hz, U("Frequency", "HZ"), BASE, 1)
Speed_m_s(m_s)       == Quantity__init__("Speed", m_s, U("Speed", "M_S"), BASE, 1)
Acceleration_m_s2(a) ==
    Quantity__init__("Acceleration", a, U("Acceleration", "M_S2"), BASE, 1)
Angle_rad(rad)       == Quantity__init__("Angle", rad, RAD, BASE, 1)
Angle_deg(deg)       == Quantity__init__("Angle", deg, DEG, BASE, 1)
AngularVelocity_rad_s(w) ==
    Quantity__init__("AngularVelocity", w, U("AngularVelocity", "RAD_S"), BASE, 1)

get_m(self)     == get(self, U("Distance", "M"), BASE)
get_s(self)     == get(self, U("Time", "S"), BASE)
get_hz(self)    == get(self, U("Frequency", "HZ"), BASE)
get_m_s(self)   == get(self, U("Speed", "M_S"), BASE)
get_m_s2(self)  == get(self, U("Acceleration", "M_S2"), BASE)
get_rad_s(self) == get(self, U("AngularVelocity", "RAD_S"), BASE)

(***************************************************************************)
(* quantities.py: Bearing and RelativeBearing construction and getters      *)
(***************************************************************************)
ECCW == <<"BearingReference", 0>>
NCW  == <<"BearingReference", 1>>
CCW  == <<"RelativeBearingReference", 0>>
CW   == <<"RelativeBearingReference", 1>>

\* rad if the reference is the zero one, else rad - pi/2
ReferredBackwards(rad, zero) == IF zero THEN rad ELSE Sub(rad, HalfPi)

\* rad if the reference is the zero one, else pi/2 - rad
Referred(rad, zero) == IF zero THEN rad ELSE Sub(HalfPi, rad)

\* Bearing.set_reference: the angle in ECCW
Bearing_set_reference(angle, reference) ==
    Angle_rad(Referred(get_rad(angle), reference = ECCW))

\* RelativeBearing.set_reference: the angle in CCW
RelativeBearing_set_reference(angle, reference) ==
    Angle_rad(Referred(get_rad(angle), reference = CCW))

\* rad >= 0
NonNegative(m) == IF IsDouble(m) THEN m.sgn = 1 ELSE m.n >= 0
\* math.fmod(rad, 2 * pi)
FmodTurn(m) == IF IsDouble(m) THEN Fmod64(m, ToDouble(TwoPi.mag)) ELSE Fmod(m, TwoPi.mag)
\* math.fmod(rad, 2 * pi) + (0.0 if rad >= 0 else 2 * pi)
Wrapped(rad) ==
    IF Stops(rad) THEN rad
    ELSE Add(MkFloat(FmodTurn(rad.mag)),
             IF NonNegative(rad.mag) THEN MkNum(NZero) ELSE TwoPi)

\* Bearing.coerce and RelativeBearing.coerce (the same body)
coerce(angle) == Angle_rad(Wrapped(get_rad(angle)))

\* Quantity.__init__(angle.get_rad(), RAD) for the coerced angle
FromAngle(cls, angle) == Quantity__init__(cls, get_rad(angle), RAD, BASE, 1)

Bearing__init__(cls, angle, reference) ==
    FromAngle(cls, Invoke("coerce", Bearing_set_reference(angle, reference), None))

RelativeBearing__init__(cls, angle, reference) ==
    Bearing__init__(cls, RelativeBearing_set_reference(angle, reference), ECCW)

Bearing_eccw_rad(radian) == Invoke("Bearing", Angle_rad(radian), Ref(ECCW))
Bearing_eccw_deg(degree) == Invoke("Bearing", Angle_deg(degree), Ref(ECCW))
Bearing_ncw_rad(radian)  == Invoke("Bearing", Angle_rad(radian), Ref(NCW))
Bearing_ncw_deg(degree)  == Invoke("Bearing", Angle_deg(degree), Ref(NCW))
RelativeBearing_ccw_rad(radian) ==
    Invoke("RelativeBearing", Angle_rad(radian), Ref(CCW))
RelativeBearing_ccw_deg(degree) ==
    Invoke("RelativeBearing", Angle_deg(degree), Ref(CCW))
RelativeBearing_cw_rad(radian) ==
    Invoke("RelativeBearing", Angle_rad(radian), Ref(CW))
RelativeBearing_cw_deg(degree) ==
    Invoke("RelativeBearing", Angle_deg(degree), Ref(CW))

\* Bearing.get_by_reference
Bearing_get_by_reference(self, angle, reference) ==
    get(Invoke("coerce", Bearing_set_reference(self, reference), None), angle, BASE)
\* RelativeBearing.get_by_reference
RelativeBearing_get_by_reference(self, angle, reference) ==
    get(Invoke("coerce", RelativeBearing_set_reference(self, reference), None), angle,
        BASE)

\* self.get_by_reference(angle, reference), dispatched on the class of self
get_by_reference(self, angle, reference) ==
    IF isinstance(self, "RelativeBearing")
    THEN RelativeBearing_get_by_reference(self, angle, reference)
    ELSE Bearing_get_by_reference(self, angle, reference)

\* Bearing.get_eccw_rad and get_ncw_rad, which RelativeBearing inherits, and
\* RelativeBearing.get_ccw_rad and get_cw_rad, which a Bearing has not
Bearing_get_eccw_rad(self) == get_by_reference(self, RAD, ECCW)
Bearing_get_ncw_rad(self)  == get_by_reference(self, RAD, NCW)
RelativeBearing_get_ccw_rad(self) ==
    IF isinstance(self, "RelativeBearing") THEN get_by_reference(self, RAD, CCW)
    ELSE Raise("AttributeError")
RelativeBearing_get_cw_rad(self) ==
    IF isinstance(self, "RelativeBearing") THEN get_by_reference(self, RAD, CW)
    ELSE Raise("AttributeError")


(***************************************************************************)
(* quantities.py: the operator overrides of the subclasses;                 *)
(* super().__mul__ and super().__truediv__ are those of Quantity            *)
(***************************************************************************)
Time__rtruediv__(self, scale) ==
    Quantity__init__("Frequency", TrueDiv(scale, get_s(self)), U("Frequency", "HZ"),
                     BASE, self.power)

Frequency__rtruediv__(self, scale) ==
    Quantity__init__("Time", TrueDiv(scale, get_hz(self)), U("Time", "S"), BASE,
                     self.power)

Distance__mul__(self, other) ==
    IF isinstance(other, "Frequency") THEN TrueDiv(self, TrueDiv(One, other))
    ELSE Quantity__mul__(self, other)

\* Distance.__truediv__ dividing by the magnitude of the Time as it is stored
\* and not by its value in seconds
Distance__truediv__stored_time(self, other) ==
    IF isinstance(other, "Time") /\ self.power = other.power
    THEN Speed_m_s(TrueDiv(get_m(self), MkNum(other.mag)))
    ELSE IF isinstance(other, "Time") /\ 2 * self.power = other.power
    THEN Acceleration_m_s2(TrueDiv(get_m(self), MkNum(other.mag)))
    ELSE IF isinstance(other, "Speed") /\ self.power = other.power
    THEN Time_s(TrueDiv(get_m(self), get_m_s(other)))
    ELSE Quantity__truediv__(self, other)

Distance__truediv__(self, other) ==
    IF isinstance(other, "Time") /\ self.power = other.power
    THEN Speed_m_s(TrueDiv(get_m(self), get_s(other)))
    ELSE IF isinstance(other, "Time") /\ 2 * self.power = other.power
    THEN Acceleration_m_s2(TrueDiv(get_m(self), get_s(other)))
    ELSE IF isinstance(other, "Speed") /\ self.power = other.power
    THEN Time_s(TrueDiv(get_m(self), get_m_s(other)))
    ELSE Quantity__truediv__(self, other)

Time__truediv__(self, other) ==
    IF isinstance(other, "Frequency") THEN Mul(self, TrueDiv(One, other))
    ELSE Quantity__truediv__(self, other)

Time__mul__(self, other) ==
    IF isinstance(other, "Speed") /\ self.power = other.power
    THEN Distance_m(Mul(get_s(self), get_m_s(other)))
    ELSE IF isinstance(other, "Frequency") THEN TrueDiv(self, TrueDiv(One, other))
    ELSE IF isinstance(other, "Acceleration") THEN Mul(other, self)
    ELSE Quantity__mul__(self, other)

(***************************************************************************)
(* quantities.py: class Timestamp.  _t is a Python int of any size, kept as *)
(* a sign and limbs, or the float an addition of a float left there.        *)
(***************************************************************************)
MkLong(sgn, big) == [sgn |-> IF big = <<>> THEN 1 ELSE sgn, big |-> big]
IsLong(v) == "big" \in DOMAIN v
LongOf(k) == MkLong(IF k < 0 THEN -1 ELSE 1, BigOf(Abs(k)))
\* int + int and int - int
LongAdd(a, b) ==
    IF a.sgn = b.sgn THEN MkLong(a.sgn, BigAdd(a.big, b.big))
    ELSE IF BigLt(a.big, b.big) THEN MkLong(b.sgn, BigSub(b.big, a.big))
    ELSE MkLong(a.sgn, BigSub(a.big, b.big))
LongSub(a, b) == LongAdd(a, MkLong(-b.sgn, b.big))
\* float(t) of an int or a float t: an int is rounded to the nearest binary64
AsFloat(t) == IF IsLong(t) THEN Round(t.sgn, t.big, 0, FALSE) ELSE ToDouble(t)
\* int(t) of a whole float t
AsLong(t) ==
    MkLong(t.sgn, IF t.x >= 0 THEN ShiftLeft(t.m, t.x) ELSE ShiftRight(t.m, -t.x))
\* a == b of ints and floats, which Python compares by their exact values
NumberEq(a, b) ==
    IF IsLong(a) /\ IsLong(b) THEN a = b
    ELSE IF IsLong(a) THEN Whole(ToDouble(b)) /\ AsLong(ToDouble(b)) = a
    ELSE IF IsLong(b) THEN Whole(ToDouble(a)) /\ AsLong(ToDouble(a)) = b
    ELSE ToDouble(a) = ToDouble(b)
\* a + b and a - b of ints and floats: of two ints the int, else the float
\* of the two floats
\* int.__add__ and int.__sub__, and the same of a float with an int
IntApply(name, a, b) ==
    IF IsLong(a.mag) /\ IsLong(b.mag)
    THEN MkNum(IF name = "__add__" THEN LongAdd(a.mag, b.mag) ELSE LongSub(a.mag, b.mag))
    ELSE Apply(name, MkNum(AsFloat(a.mag)), MkNum(AsFloat(b.mag)))
NumberAdd(a, b) == Apply("__add__", MkNum(a), MkNum(b)).mag
NumberSub(a, b) == Apply("__sub__", MkNum(a), MkNum(b)).mag
\* the magnitude of a quantity given an int or a float; ints of 2^30 and
\* more are outside the numbers of the model
Magnitude(t) ==
    IF ~IsLong(t) THEN MkNum(t)
    ELSE IF BitLen(t.big) > 30 THEN Unmodelled
    ELSE MkNum(NInt(t.sgn * IntOf(t.big)))

\* Timestamp.__init__
MkTimestamp(t) ==
    [k |-> "ts", cls |-> "Timestamp", mag |-> t, unity |-> NoUnity, prefix |-> "",
     power |-> 0, b |-> FALSE]
IsTimestamp(v) == v.k = "ts"
Timestamp_ns(nanoseconds) == MkTimestamp(nanoseconds)
Timestamp_get_ns(self) == self.mag
\* Time.ns and Time.get_ns
Time_ns(ns) == Quantity__init__("Time", Magnitude(ns), U("Time", "S"), "n", 1)
get_ns(self) == get(self, U("Time", "S"), "n")
\* self.get_ns() <plus> other.get_ns() for a Timestamp self and a Time other
Offset(self, other, ns, plus) ==
    IF Stops(ns) THEN ns
    ELSE Timestamp_ns(IF plus THEN NumberAdd(Timestamp_get_ns(self), ns.mag)
                      ELSE NumberSub(Timestamp_get_ns(self), ns.mag))
\* Timestamp.__add__
Timestamp__add__(self, other) ==
    IF isinstance(other, "Time") THEN Offset(self, other, get_ns(other), TRUE)
    ELSE Raise("NotImplementedError")
\* Timestamp.__sub__
Timestamp__sub__(self, other) ==
    IF IsTimestamp(other)
    THEN Time_ns(NumberSub(Timestamp_get_ns(self), Timestamp_get_ns(other)))
    ELSE IF isinstance(other, "Time") THEN Offset(self, other, get_ns(other), FALSE)
    ELSE Raise("NotImplementedError")
\* time.time() when the clock shows ns nanoseconds: the float of its seconds
time_time(ns) == ToDouble(NFrac(ns, 10^9))
\* target_time = self._t / 1e9
TargetTime(self) == RDiv(AsFloat(self.mag), ToDouble(Pow10(9)))
\* the sleep time of a caller that subtracts the target from the clock
SleepTimeBackwards(target_time, current_time) ==
    IF RLt(DZero, RSub(current_time, target_time))
    THEN MkNum(RSub(current_time, target_time)) ELSE MkNum(NZero)
\* sleep_time = max(0, target_time - current_time): the int 0 unless the
\* difference is greater
SleepTime(target_time, current_time) ==
    IF RLt(DZero, RSub(target_time, current_time))
    THEN MkNum(RSub(target_time, current_time)) ELSE MkNum(NZero)
\* time.sleep(secs) may return: ns nanoseconds have passed since it was
\* entered and they are secs seconds at least
Slept(ns, secs) ==
    IF ~IsDouble(secs.mag) THEN TRUE
    ELSE IF secs.mag.x >= 0
    THEN ~BigLt(BigOf(ns), ShiftLeft(BigMul(secs.mag.m, BigOf(10^9)), secs.mag.x))
    ELSE ~BigLt(ShiftLeft(BigOf(ns), -secs.mag.x), BigMul(secs.mag.m, BigOf(10^9)))
\* Timestamp.__eq__
Timestamp__eq__(self, other) == MkBool(NumberEq(self.mag, other.mag))
\* the call <name> of a Timestamp a
TimestampCall(name, a, b) ==
    CASE name = "__add__" -> Timestamp__add__(a, b)
      [] name = "__sub__" -> Timestamp__sub__(a, b)
      [] name = "=="      -> Timestamp__eq__(a, b)
      [] OTHER            -> Unmodelled

\* Time.__add__
Time__add__(self, other) ==
    IF IsTimestamp(other) THEN Offset(other, self, get_ns(self), TRUE)
    ELSE Quantity__add__(self, other)

Frequency__truediv__(self, other) ==
    IF isinstance(other, "Time") THEN Mul(self, TrueDiv(One, other))
    ELSE Quantity__truediv__(self, other)

\* Speed without an override of __mul__
Speed__mul__inherited(self, other) == Quantity__mul__(self, other)

Speed__mul__(self, other) ==
    IF isinstance(other, "Time") THEN Mul(other, self)
    ELSE Quantity__mul__(self, other)

Speed__truediv__(self, other) ==
    IF isinstance(other, "Distance")
    THEN Frequency_hz(TrueDiv(get_m_s(self), get_m(other)))
    ELSE IF isinstance(other, "Frequency") THEN Mul(self, TrueDiv(One, other))
    ELSE IF isinstance(other, "Time") /\ self.power = other.power
    THEN Acceleration_m_s2(TrueDiv(get_m_s(self), get_s(other)))
    ELSE Quantity__truediv__(self, other)

Acceleration__mul__(self, other) ==
    IF isinstance(other, "Time") /\ self.power = other.power
    THEN Speed_m_s(Mul(get_m_s2(self), get_s(other)))
    ELSE IF isinstance(other, "Time") /\ 2 * self.power = other.power
    THEN Distance_m(Mul(get_m_s2(self), get_s(other)))
    ELSE Quantity__mul__(self, other)

Angle__truediv__(self, other) ==
    IF isinstance(other, "Time")
    THEN AngularVelocity_rad_s(TrueDiv(get_rad(self), get_s(other)))
    ELSE Quantity__truediv__(self, other)

AngularVelocity__mul__(self, other) ==
    IF isinstance(other, "Time") THEN Angle_rad(Mul(get_rad_s(self), get_s(other)))
    ELSE Quantity__mul__(self, other)

\* "if isinstance(aux, Angle): return <class>(aux.get_rad()); return aux" at
\* the end of __mul__ and __truediv__ of Bearing, where again is
\* Bearing.eccw_rad(aux.get_rad()), and of RelativeBearing, where it is
\* RelativeBearing.ccw_rad(aux.get_rad())
BackToBearing(aux, again) == IF isinstance(aux, "Angle") THEN again ELSE aux

\* aux of Bearing.__mul__ and RelativeBearing.__mul__
AngleProduct(self, other) == Mul(Angle_rad(get_eccw_rad(self)), other)
\* aux of Bearing.__truediv__ and RelativeBearing.__truediv__
AngleQuotient(self, other) == TrueDiv(Angle_rad(get_eccw_rad(self)), other)

Bearing__mul__(self, other) ==
    BackToBearing(AngleProduct(self, other),
                  Bearing_eccw_rad(get_rad(AngleProduct(self, other))))
Bearing__truediv__(self, other) ==
    BackToBearing(AngleQuotient(self, other),
                  Bearing_eccw_rad(get_rad(AngleQuotient(self, other))))
RelativeBearing__mul__(self, other) ==
    BackToBearing(AngleProduct(self, other),
                  RelativeBearing_ccw_rad(get_rad(AngleProduct(self, other))))
RelativeBearing__truediv__(self, other) ==
    BackToBearing(AngleQuotient(self, other),
                  RelativeBearing_ccw_rad(get_rad(AngleQuotient(self, other))))

Bearing__add__(self, other) ==
    Seq2(_check_compatibility(self, other),
         IF isinstance(other, "RelativeBearing")
         THEN Bearing_eccw_rad(Add(get_eccw_rad(self), get_ccw_rad(other)))
         ELSE IF isinstance(other, "Bearing")
         THEN Bearing_eccw_rad(Add(get_eccw_rad(self), get_eccw_rad(other)))
         ELSE IF isinstance(other, "Angle")
         THEN Bearing_eccw_rad(Add(get_eccw_rad(self), get_rad(other)))
         ELSE Add(Angle_rad(get_eccw_rad(self)), other))

\* Bearing.__sub__ returning an absolute Bearing for the difference of two
\* Bearings
Bearing__sub__absolute(self, other) ==
    Seq2(_check_compatibility(self, other),
         IF isinstance(other, "RelativeBearing")
         THEN Bearing_eccw_rad(Sub(get_eccw_rad(self), get_ccw_rad(other)))
         ELSE IF isinstance(other, "Bearing")
         THEN Bearing_eccw_rad(Sub(get_eccw_rad(self), get_eccw_rad(other)))
         ELSE IF isinstance(other, "Angle")
         THEN Bearing_eccw_rad(Sub(get_eccw_rad(self), get_rad(other)))
         ELSE Sub(Angle_rad(get_eccw_rad(self)), other))

Bearing__sub__(self, other) ==
    Seq2(_check_compatibility(self, other),
         IF isinstance(other, "RelativeBearing")
         THEN Bearing_eccw_rad(Sub(get_eccw_rad(self), get_ccw_rad(other)))
         ELSE IF isinstance(other, "Bearing")
         THEN RelativeBearing_ccw_rad(Sub(get_eccw_rad(self), get_eccw_rad(other)))
         ELSE IF isinstance(other, "Angle")
         THEN Bearing_eccw_rad(Sub(get_eccw_rad(self), get_rad(other)))
         ELSE Sub(Angle_rad(get_eccw_rad(self)), other))

RelativeBearing__add__(self, other) ==
    Seq2(_check_compatibility(self, other),
         IF isinstance(other, "Bearing")
         THEN Bearing_eccw_rad(Add(get_ccw_rad(self), get_eccw_rad(other)))
         ELSE IF isinstance(other, "Angle")
         THEN RelativeBearing_ccw_rad(Add(get_ccw_rad(self), get_rad(other)))
         ELSE Sub(Angle_rad(get_eccw_rad(self)), other))

RelativeBearing__sub__(self, other) ==
    Seq2(_check_compatibility(self, other),
         IF isinstance(other, "Bearing")
         THEN Bearing_eccw_rad(Sub(get_ccw_rad(self), get_eccw_rad(other)))
         ELSE IF isinstance(other, "Angle")
         THEN RelativeBearing_ccw_rad(Sub(get_ccw_rad(self), get_rad(other)))
         ELSE Sub(Angle_rad(get_eccw_rad(self)), other))


(***************************************************************************)
(* Python's dispatch                                                        *)
(***************************************************************************)
\* self.__mul__(other): the method the class of self defines or inherits
Method__mul__(self, other) ==
    CASE self.cls = "Distance"        -> Distance__mul__(self, other)
      [] self.cls = "Time"            -> Time__mul__(self, other)
      [] self.cls = "Speed"           -> Speed__mul__(self, other)
      [] self.cls = "Acceleration"    -> Acceleration__mul__(self, other)
      [] self.cls = "AngularVelocity" -> AngularVelocity__mul__(self, other)
      [] self.cls = "Bearing"         -> Bearing__mul__(self, other)
      [] self.cls = "RelativeBearing" -> RelativeBearing__mul__(self, other)
      [] OTHER                        -> Quantity__mul__(self, other)

\* self.__truediv__(other)
Method__truediv__(self, other) ==
    CASE self.cls = "Distance"        -> Distance__truediv__(self, other)
      [] self.cls = "Time"            -> Time__truediv__(self, other)
      [] self.cls = "Frequency"       -> Frequency__truediv__(self, other)
      [] self.cls = "Speed"           -> Speed__truediv__(self, other)
      [] self.cls \in {"Angle", "Latitude", "Longitude"} -> Angle__truediv__(self, other)
      [] self.cls = "Bearing"         -> Bearing__truediv__(self, other)
      [] self.cls = "RelativeBearing" -> RelativeBearing__truediv__(self, other)
      [] OTHER                        -> Quantity__truediv__(self, other)

\* self.__rtruediv__(scale)
Method__rtruediv__(self, scale) ==
    CASE self.cls = "Time"      -> Time__rtruediv__(self, scale)
      [] self.cls = "Frequency" -> Frequency__rtruediv__(self, scale)
      [] OTHER                  -> Quantity__rtruediv__(self, scale)

\* self.__add__(other)
Method__add__(self, other) ==
    CASE self.cls = "Bearing"         -> Bearing__add__(self, other)
      [] self.cls = "RelativeBearing" -> RelativeBearing__add__(self, other)
      [] self.cls = "Time"            -> Time__add__(self, other)
      [] OTHER                        -> Quantity__add__(self, other)

\* self.__sub__(other)
Method__sub__(self, other) ==
    CASE self.cls = "Bearing"         -> Bearing__sub__(self, other)
      [] self.cls = "RelativeBearing" -> RelativeBearing__sub__(self, other)
      [] OTHER                        -> Quantity__sub__(self, other)

\* the comparison methods, which no subclass overrides
Swapped(rel) == CASE rel = "<" -> ">" [] rel = ">" -> "<" [] rel = "<=" -> ">="
                  [] rel = ">=" -> "<=" [] OTHER -> rel
RichCompare(self, other, rel) ==
    CASE rel = "==" -> Quantity__eq__(self, other)
      [] rel = "!=" -> Quantity__ne__(self, other)
      [] rel = "<"  -> Quantity__lt__(self, other)
      [] rel = ">"  -> Quantity__gt__(self, other)
      [] rel = "<=" -> Quantity__le__(self, other)
      [] rel = ">=" -> Quantity__ge__(self, other)
\* Python gives the reflected comparison of the right operand priority when
\* its class is a proper subclass of the class of the left operand
Reflected(a, b) == IsQty(b) /\ a.cls # b.cls /\ a.cls \in Bases(b.cls)

\* a <name> b for a quantity a
QuantityApply(name, a, b) ==
    CASE name = "__mul__"     -> Method__mul__(a, b)
      [] name = "__truediv__" -> Method__truediv__(a, b)
      [] name = "__add__"     -> Method__add__(a, b)
      [] name = "__sub__"     -> Method__sub__(a, b)
      [] name = "__pow__"     -> Quantity__pow__(a, b)
      [] name = "__abs__"     -> Quantity__abs__(a)
      [] OTHER -> RichCompare(IF Reflected(a, b) THEN b ELSE a,
                              IF Reflected(a, b) THEN a ELSE b,
                              IF Reflected(a, b) THEN Swapped(name) ELSE name)

\* a <name> b for a number a and a quantity b: the reflected method of b;
\* Quantity has no __radd__, no __rsub__ and no __rpow__
ReflectedApply(name, a, b) ==
    CASE name = "__mul__"     -> Quantity__rmul__(b, a)
      [] name = "__truediv__" -> Method__rtruediv__(b, a)
      [] name \in {"__add__", "__sub__", "__pow__"} -> Raise("TypeError")
      [] OTHER -> RichCompare(b, a, Swapped(name))

(***************************************************************************)
(* quantities.py: class DMS, and the factories of Angle that its subclasses *)
(* inherit                                                                  *)
(***************************************************************************)
\* DMS.__init__
MkDMS(degree, minute, second) ==
    [k |-> "dms", cls |-> "DMS", mag |-> <<degree.mag, minute.mag, second.mag>>,
     unity |-> NoUnity, prefix |-> "", power |-> 0, b |-> FALSE]
IsDMS(v) == v.k = "dms"
degree(self) == MkNum(self.mag[1])
minute(self) == MkNum(self.mag[2])
second(self) == MkNum(self.mag[3])
Sixty == MkNum(NInt(60))

\* self.degree + math.copysign(self.minute/60.0 + self.second/3600.0, self.degree)
DMS_get_degrees(self) ==
    Add(degree(self),
        MkNum(math_copysign(Add(TrueDiv(minute(self), Sixty),
                                TrueDiv(second(self), MkNum(NInt(3600)))).mag,
                            self.mag[1])))

\* deg = math.floor(degree) if (degree > 0) else math.ceil(degree)
WholeDegrees(d) ==
    MkNum(IF Compare(d, MkNum(NZero), ">") = MkBool(TRUE) THEN math_floor(d.mag)
          ELSE math_ceil(d.mag))
\* degree = abs(degree) - abs(deg)
Fraction(d, deg) == Sub(MkNum(abs(d.mag)), MkNum(abs(deg.mag)))
\* minute = math.floor(degree * 60)
Minutes(frac) == MkNum(math_floor(Mul(frac, Sixty).mag))
\* the seconds of the fraction with its whole minutes
SecondsWithMinutes(frac, min) == Mul(Mul(frac, Sixty), Sixty)
\* degree = degree * 60 - minute; sec = degree * 60
Seconds(frac, min) == Mul(Sub(Mul(frac, Sixty), min), Sixty)
\* DMS.by_degree
DMS_by_degree(d) ==
    MkDMS(WholeDegrees(d),
          Minutes(Fraction(d, WholeDegrees(d))),
          Seconds(Fraction(d, WholeDegrees(d)), Minutes(Fraction(d, WholeDegrees(d)))))

\* a str, as the sequence of its characters
MkStr(chars) ==
    [k |-> "str", cls |-> "str", mag |-> chars, unity |-> NoUnity, prefix |-> "",
     power |-> 0, b |-> FALSE]
IsStr(v) == v.k = "str"
\* the arguments precision and show_signal of a call of to_string
MkArgs(precision, show_signal) ==
    [k |-> "args", cls |-> "", mag |-> NZero, unity |-> NoUnity, prefix |-> "",
     power |-> precision, b |-> show_signal]
Digits == <<"0", "1", "2", "3", "4", "5", "6", "7", "8", "9">>
DigitChars == {Digits[i] : i \in 1..Len(Digits)}
DigitValue(c) == CHOOSE i \in 0..9 : Digits[i + 1] = c
DegreeMark == "°"
MinuteMark == "'"
SecondMark == "\""

\* the decimal digits of the natural number n, w of them at least
RECURSIVE DigitsOf(_, _)
DigitsOf(n, w) ==
    IF n < 10 /\ w <= 1 THEN <<Digits[n + 1]>>
    ELSE DigitsOf(n \div 10, w - 1) \o <<Digits[(n % 10) + 1]>>
\* |v| * 10^p of a binary64 v as a natural number below 2^31, truncated
Truncating(v, p) ==
    IF v.x >= 0 THEN IntOf(ShiftLeft(BigMul(v.m, BigOf(10^p)), v.x))
    ELSE IntOf(ShiftRight(BigMul(v.m, BigOf(10^p)), -v.x))
\* |v| * 10^p of a binary64 v rounded to the nearest natural number below
\* 2^31, the even one in a tie: the digits the format type f prints
Scaled(v, p) == IntOf(RoundAt(1, BigMul(v.m, BigOf(10^p)), v.x, FALSE, -v.x).m)
\* the sign of format(v): "-" for a negative v
SignOf(v) == IF Negative(v) THEN <<"-">> ELSE <<>>
\* the digits of format(v, ".{p}f") after the sign
FixedPoint(v, p) ==
    LET ds == DigitsOf(Scaled(ToDouble(v), p), p + 1)
    IN  IF p = 0 THEN ds
        ELSE SubSeq(ds, 1, Len(ds) - p) \o <<".">> \o SubSeq(ds, Len(ds) - p + 1, Len(ds))
Filled(c, n) == [i \in 1..n |-> c]
\* format(v, "{width}.{p}f"), and format(v, "0{width}.{p}f") when zero: the
\* field is filled to the width with spaces before the sign, or with zeros
\* after it
format(v, zero, width, p) ==
    LET body == FixedPoint(v, p)
        fill == width - Len(SignOf(v)) - Len(body)
    IN  IF zero THEN SignOf(v) \o Filled("0", fill) \o body
        ELSE Filled(" ", fill) \o SignOf(v) \o body
\* DMS.to_string
DMS_to_string(self, precision, show_signal) ==
    MkStr(format(IF show_signal THEN self.mag[1] ELSE abs(self.mag[1]), TRUE, 2, 0)
          \o <<DegreeMark>>
          \o format(self.mag[2], TRUE, 2, 0)
          \o <<MinuteMark>>
          \o (IF precision = 0 THEN format(self.mag[3], TRUE, 2, 0)
              ELSE format(self.mag[3], FALSE, precision + 3, precision))
          \o <<SecondMark>>)

\* re.split("[°'\"]", s) after the piece that has begun
RECURSIVE Split(_, _)
Split(s, piece) ==
    IF s = <<>> THEN <<piece>>
    ELSE IF Head(s) \in {DegreeMark, MinuteMark, SecondMark}
         THEN <<piece>> \o Split(Tail(s), <<>>)
    ELSE Split(Tail(s), Append(piece, Head(s)))
re_split(s) == Split(s, <<>>)
\* s.strip() of the blanks and line ends
Whitespace == {" ", "\t", "\n", "\r"}
RECURSIVE strip(_)
strip(s) ==
    IF s = <<>> THEN s
    ELSE IF Head(s) \in Whitespace THEN strip(Tail(s))
    ELSE IF s[Len(s)] \in Whitespace THEN strip(SubSeq(s, 1, Len(s) - 1))
    ELSE s
Unsigned(s) == IF s # <<>> /\ Head(s) \in {"+", "-"} THEN Tail(s) ELSE s
IsDigit(c) == c \in DigitChars
IsPoint(c) == c = "."
\* s is digits with at most one point among them
IsNumeral(s) ==
    /\ SelectSeq(s, IsDigit) # <<>>
    /\ Len(SelectSeq(s, IsPoint)) <= 1
    /\ Len(SelectSeq(s, IsDigit)) + Len(SelectSeq(s, IsPoint)) = Len(s)
\* the natural number of a sequence of digits
RECURSIVE NumberOf(_)
NumberOf(ds) ==
    IF ds = <<>> THEN 0 ELSE 10 * NumberOf(SubSeq(ds, 1, Len(ds) - 1)) + DigitValue(ds[Len(ds)])
\* the digits of s after its point
RECURSIVE Decimals(_)
Decimals(s) ==
    IF s = <<>> THEN 0 ELSE IF IsPoint(s[Len(s)]) THEN 0
    ELSE IF \E i \in 1..Len(s) : IsPoint(s[i]) THEN 1 + Decimals(SubSeq(s, 1, Len(s) - 1))
    ELSE 0
\* float(s) of a str s of digits, signs, points, blanks, the three marks and
\* letters that are in no float literal: the decimal number rounded once,
\* or ValueError
float(s) ==
    IF ~IsNumeral(Unsigned(strip(s))) THEN Raise("ValueError")
    ELSE MkNum(ToDouble(NFrac((IF Head(strip(s)) = "-" THEN -1 ELSE 1)
                                  * NumberOf(SelectSeq(Unsigned(strip(s)), IsDigit)),
                              10^Decimals(Unsigned(strip(s))))))
\* values[i] after the loop: float(pieces[i]), or the 0 it began with when
\* there is no such piece or float raised ValueError
ValueOf(pieces, i) ==
    IF i > Len(pieces) THEN MkNum(NZero)
    ELSE IF IsExc(float(pieces[i])) THEN MkNum(NZero)
    ELSE float(pieces[i])
\* dms.endswith('S') or dms.endswith('W')
EndsSouthOrWest(dms) == dms # <<>> /\ dms[Len(dms)] \in {"S", "W"}
\* values[0] as it was parsed
AsParsed(value, dms) == value
\* values[0] *= -1, when the str ends so
Signed(value, dms) ==
    IF EndsSouthOrWest(dms) THEN Mul(value, MkNum(NInt(-1))) ELSE value
\* DMS.by_string
DMS_by_string(dms) ==
    MkDMS(Signed(ValueOf(re_split(dms.mag), 1), dms.mag),
          ValueOf(re_split(dms.mag), 2),
          ValueOf(re_split(dms.mag), 3))

\* Angle.deg, Angle.rad and Angle.dms as classmethods of cls
Angle_deg_cls(cls, deg) == New(cls, deg, DEG, BASE, 1)
Angle_rad_cls(cls, rad) == New(cls, rad, RAD, BASE, 1)
Angle_dms_cls(cls, dms) == New(cls, DMS_get_degrees(dms), DEG, BASE, 1)

\* the call <name> of DMS and of the factories
DMSCall(name, a, b) ==
    CASE name = "by_degree"   -> DMS_by_degree(a)
      [] name = "get_degrees" -> DMS_get_degrees(a)
      [] name = "to_string"   -> DMS_to_string(a, b.power, b.b)
      [] name = "by_string"   -> DMS_by_string(a)
      [] name = "deg"         -> Angle_deg_cls(b.cls, a)
      [] name = "rad"         -> Angle_rad_cls(b.cls, a)
      [] name = "dms"         -> Angle_dms_cls(b.cls, a)

\* the call <name> of the bearing classes
BearingCall(name, a, b) ==
    CASE name = "Bearing"         -> Bearing__init__("Bearing", a, b.reference)
      [] name = "RelativeBearing" -> RelativeBearing__init__("RelativeBearing", a,
                                                             b.reference)
      [] name = "coerce"          -> coerce(a)
      [] name = "get_eccw_rad"    -> Bearing_get_eccw_rad(a)
      [] name = "get_ncw_rad"     -> Bearing_get_ncw_rad(a)
      [] name = "get_ccw_rad"     -> RelativeBearing_get_ccw_rad(a)
      [] name = "get_cw_rad"      -> RelativeBearing_get_cw_rad(a)

(***************************************************************************)
(* unity.py and quantities.py: __str__ of Prefix, of the unities Distance   *)
(* and Time, and of a Distance or a Time                                    *)
(***************************************************************************)
\* the names of the members of Prefix and of the unities Distance and Time,
\* as the sequences of their characters
Spelling ==
    [BASE |-> <<"B", "A", "S", "E">>, y |-> <<"y">>, z |-> <<"z">>,
     a |-> <<"a">>, f |-> <<"f">>, p |-> <<"p">>, n |-> <<"n">>,
     u |-> <<"u">>, m |-> <<"m">>, k |-> <<"k">>, M |-> <<"M">>,
     G |-> <<"G">>, T |-> <<"T">>, P |-> <<"P">>, E |-> <<"E">>,
     Z |-> <<"Z">>, Y |-> <<"Y">>, Ki |-> <<"K", "i">>, Mi |-> <<"M", "i">>,
     Gi |-> <<"G", "i">>, Ti |-> <<"T", "i">>, Pi |-> <<"P", "i">>,
     Ei |-> <<"E", "i">>, Zi |-> <<"Z", "i">>, Yi |-> <<"Y", "i">>,
     YD |-> <<"Y", "D">>, NM |-> <<"N", "M">>, FT |-> <<"F", "T">>,
     S |-> <<"S">>, H |-> <<"H">>]
UpperCase == <<"A", "B", "C", "D", "E", "F", "G", "H", "I", "J", "K", "L", "M", "N",
               "O", "P", "Q", "R", "S", "T", "U", "V", "W", "X", "Y", "Z">>
LowerCase == <<"a", "b", "c", "d", "e", "f", "g", "h", "i", "j", "k", "l", "m", "n",
               "o", "p", "q", "r", "s", "t", "u", "v", "w", "x", "y", "z">>
\* c.lower() of a character
LowerOf(c) ==
    IF \E i \in 1..Len(UpperCase) : UpperCase[i] = c
    THEN LowerCase[CHOOSE i \in 1..Len(UpperCase) : UpperCase[i] = c]
    ELSE c
\* s.lower() of the characters s
lower(s) == [i \in 1..Len(s) |-> LowerOf(s[i])]
\* a member of Prefix as a value
MkPrefix(p) ==
    [k |-> "prefix", cls |-> "Prefix", mag |-> NZero, unity |-> NoUnity, prefix |-> p,
     power |-> 0, b |-> FALSE]
\* Prefix.__str__
Prefix__str__(self) ==
    IF self.prefix = BASE THEN MkStr(<<>>) ELSE MkStr(lower(Spelling[self.prefix]))
\* Distance.__str__ and Time.__str__ of unity.py
Unity__str__(self) ==
    IF self.type \in {"Distance", "Time"} THEN MkStr(lower(Spelling[self.name]))
    ELSE Unmodelled
\* str(i) of an int
IntStr(i) == (IF i < 0 THEN <<"-">> ELSE <<>>) \o DigitsOf(Abs(i), 1)
\* Quantity.__str__ of a Distance or a Time whose magnitude is an int
Quantity__str__(self) ==
    IF self.cls \notin {"Distance", "Time"} \/ IsDouble(self.mag) THEN Unmodelled
    ELSE IF ~Integral(self.mag) THEN Unmodelled
    ELSE IF self.power = 1
    THEN MkStr(IntStr(NumOf(self.mag)) \o <<" ">>
               \o Prefix__str__(MkPrefix(self.prefix)).mag
               \o Unity__str__(self.unity).mag)
    ELSE MkStr(IntStr(NumOf(self.mag)) \o <<" ">>
               \o Prefix__str__(MkPrefix(self.prefix)).mag
               \o <<"(">> \o Unity__str__(self.unity).mag \o <<")", "^">>
               \o IntStr(self.power))
\* str(v) of a Prefix or a quantity
str(v) ==
    IF v.k = "prefix" THEN Prefix__str__(v)
    ELSE IF IsQty(v) THEN Quantity__str__(v)
    ELSE Unmodelled

\* a <name> b, a.get(b.unity, b.prefix) for the name "get", and the calls of
\* the bearing classes: an exception raised while a or b was computed
\* propagates
Apply(name, a, b) ==
    IF Stops(a) THEN a ELSE IF Stops(b) THEN b
    ELSE IF name = "get" THEN Quantity_get(a, b.unity, b.prefix)
    ELSE IF name = "__str__" THEN str(a)
    ELSE IF name = "__float__" THEN MkNum(Binary64(a.mag))
    ELSE IF name \in BearingCalls THEN BearingCall(name, a, b)
    ELSE IF name \in DMSCalls THEN DMSCall(name, a, b)
    ELSE IF IsTimestamp(a) THEN TimestampCall(name, a, b)
    ELSE IF IsNum(a) /\ IsNum(b) /\ (IsLong(a.mag) \/ IsLong(b.mag))
    THEN IntApply(name, a, b)
    ELSE IF IsNum(a) /\ IsNum(b) THEN FloatApply(name, a, b)
    ELSE IF IsNum(a) THEN ReflectedApply(name, a, b)
    ELSE QuantityApply(name, a, b)


(***************************************************************************)
(* The state machine: a caller that holds two quantities x and y, applies   *)
(* one operation to them (result r) and may then combine the result with    *)
(* one of the operands in a second multiplication or division (result r2).  *)
(***************************************************************************)
VARIABLES x, y, pc, op, a1, b1, target, r, op2, a2, b2, r2
\* the wall clock in nanoseconds, its value when Timestamp.sleep read it and
\* its value when time.sleep was entered
VARIABLES clock, reading, entered, due
\* the child process of run_process with its two pipes, and the caller of
\* run_process
VARIABLES process, caller
running == <<process, caller>>
world == <<clock, reading, entered, due, running>>
vars == <<x, y, pc, op, a1, b1, target, r, op2, a2, b2, r2, world>>
\* the clock stands still while the caller computes
Stopped == clock = 0 /\ reading = 0 /\ entered = 0 /\ due = 0
\* no child process was started
NoProcess == [todo |-> <<>>, lines |-> 0, stdout |-> <<>>, stderr |-> 0, exited |-> FALSE,
              status |-> 0]
NoCaller == [pc |-> "", calls |-> <<>>, stderr_output |-> 0, returncode |-> -1]
Still == Stopped /\ process = NoProcess /\ caller = NoCaller

NoTarget == [unity |-> NoUnity, prefix |-> ""]

\* the object Quantity.__init__ leaves for an int magnitude
Q(cls, m, uname, prefix, power) ==
    MkQty(cls, NInt(m), U(UnityTypeOf(cls), uname), prefix, power)
\* a quantity in radians (per second) of magnitude (num / den) * pi^power
QRad(cls, num, den, prefix, power) ==
    MkQty(cls, NMul(NFrac(num, den), NPow(NPi, power)),
          U(UnityTypeOf(cls), IF cls = "AngularVelocity" THEN "RAD_S" ELSE "RAD"),
          prefix, power)
\* the object Bearing.__init__ and RelativeBearing.__init__ leave: the ECCW
\* angle in radians, (num / den) * pi in [0, 2 pi)
QBearing(cls, num, den) == QRad(cls, num, den, BASE, 1)

\* the operands of a caller that has computed nothing yet
Operands(xs, ys) ==
    /\ x \in xs
    /\ y \in ys
    /\ pc = "start"
    /\ op = "" /\ a1 = "" /\ b1 = "" /\ target = NoTarget /\ r = None
    /\ op2 = "" /\ a2 = "" /\ b2 = "" /\ r2 = None
Start(xs, ys) == Operands(xs, ys) /\ Still

Operand(name) == CASE name = "x" -> x [] name = "y" -> y [] name = "r" -> r

First(name, a, b, result) ==
    /\ pc = "start"
    /\ pc' = "one"
    /\ op' = name /\ a1' = a /\ b1' = b
    /\ r' = result
    /\ UNCHANGED <<x, y, op2, a2, b2, r2, world>>

\* x.get(unity, prefix) for a unity of x's own enumeration
DoGet ==
    \E u \in UnitiesOf(x.unity.type), p \in Prefix :
        /\ First("get", "x", "", get(x, u, p))
        /\ target' = [unity |-> u, prefix |-> p]

\* x <rel> y
DoCompare ==
    \E rel \in Rels : First(rel, "x", "y", Compare(x, y, rel)) /\ UNCHANGED target
\* x + y
DoAdd == First("+", "x", "y", Add(x, y)) /\ UNCHANGED target
\* x - y
DoSub == First("-", "x", "y", Sub(x, y)) /\ UNCHANGED target

FirstOperands == {<<"x", "y">>, <<"y", "y">>}
\* x * y, y * y
DoMul ==
    \E ab \in FirstOperands :
        /\ First("*", ab[1], ab[2], Mul(Operand(ab[1]), Operand(ab[2])))
        /\ UNCHANGED target
\* x / y, y / y
DoTrueDiv ==
    \E ab \in FirstOperands :
        /\ First("/", ab[1], ab[2], TrueDiv(Operand(ab[1]), Operand(ab[2])))
        /\ UNCHANGED target

Then(name, a, b, result) ==
    /\ pc = "one"
    /\ op \in {"*", "/"}
    /\ r.k \in {"qty", "num"}
    /\ pc' = "two"
    /\ op2' = name /\ a2' = a /\ b2' = b
    /\ r2' = result
    /\ UNCHANGED <<x, y, op, a1, b1, target, r, world>>

SecondOperands == {<<"r", "x">>, <<"r", "y">>, <<"x", "r">>, <<"y", "r">>}

\* r * x, r * y, x * r, y * r
ThenMul ==
    \E ab \in SecondOperands :
        Then("*", ab[1], ab[2], Mul(Operand(ab[1]), Operand(ab[2])))
\* r / x, r / y, x / r, y / r
ThenTrueDiv ==
    \E ab \in SecondOperands :
        Then("/", ab[1], ab[2], TrueDiv(Operand(ab[1]), Operand(ab[2])))

(***************************************************************************)
(* Inputs                                                                   *)
(***************************************************************************)
Powers == -1..MaxPower
GetPrefixes == {"BASE", "m", "k", "y", "Y", "Ki"}
GetInputs ==
    {MkQty(t, NInt(m), u, p, w) :
        t \in UnityTypes, u \in Unity, p \in GetPrefixes, w \in Powers, m \in 1..MaxMag}

InitGet == Start({q \in GetInputs : q.unity.type = q.cls}, {None})
NextGet == DoGet
SpecGet == InitGet /\ [][NextGet]_vars


\* the quantities of the example script
d1 == Q("Distance", 5000, "M", BASE, 1)
d2 == Q("Distance", 5, "M", "k", 1)
t1 == Q("Time", 500, "S", "m", 1)
t2 == Q("Time", 1, "S", BASE, 1)
s5 == Q("Speed", 5, "M_S", BASE, 1)
t10 == Q("Time", 10, "S", BASE, 1)

\* (units and prefixes are kept close enough for the sums to stay exact)
CmpInputs ==
    {Q("Distance", m, u, p, 1) : m \in -1..MaxMag, u \in {"M", "NM"}, p \in {BASE, "k"}}
    \cup {Q("Distance", m, "M", p, 2) : m \in -1..MaxMag, p \in {BASE, "k"}}
    \cup {Q("Time", m, u, p, 1) : m \in 1..MaxMag, u \in {"S", "M"}, p \in {BASE, "m"}}
    \cup {Q("Time", m, "S", p, 2) : m \in 1..MaxMag, p \in {BASE, "m"}}
    \cup {Q("Angle", 90, "DEG", BASE, 1), QRad("Angle", 1, 2, BASE, 1),
          Q("Latitude", 30, "DEG", BASE, 1),
          QBearing("Bearing", 1, 2), QBearing("Bearing", 1, 3),
          QBearing("RelativeBearing", 1, 3)}
    \cup {d1, d2, t1, t2}

InitCmp == Start(CmpInputs, CmpInputs)
NextCmp == DoCompare \/ DoAdd \/ DoSub
SpecCmp == InitCmp /\ [][NextCmp]_vars

\* quantities of every class, in several units, prefixes and powers
ArithInputs ==
    {Q("Distance", m, "M", BASE, 1) : m \in 0..MaxMag}
    \cup {Q("Distance", 1, "NM", BASE, 1), Q("Distance", 1, "M", "k", 1),
          Q("Distance", 3, "YD", BASE, 1), Q("Distance", 1, "M", "k", 2),
          Q("Distance", 3, "FT", BASE, 2)}
    \cup {Q("Time", m, "S", BASE, 1) : m \in 0..MaxMag}
    \cup {Q("Time", 1, "H", BASE, 1), Q("Time", 5, "M", BASE, 1), t1,
          Q("Time", 1, "M", "k", 1), Q("Time", 3, "S", BASE, 2),
          Q("Time", 1, "S", "m", 2)}
    \cup {Q("Speed", m, "M_S", BASE, 1) : m \in 0..MaxMag}
    \cup {Q("Speed", 1, "KT", BASE, 1), Q("Speed", 1, "KM_H", BASE, 1),
          Q("Speed", 3, "KT", "m", 1), Q("Speed", 1, "M_S", "k", 2)}
    \cup {Q("Frequency", m, "HZ", BASE, 1) : m \in 0..MaxMag}
    \cup {Q("Frequency", 3, "RPM", BASE, 1), Q("Frequency", 1, "HZ", "k", 1),
          Q("Frequency", 1, "HZ", BASE, 2)}
    \cup {Q("Acceleration", 1, "M_S2", BASE, 1), Q("Acceleration", 3, "KM_H2", "k", 1),
          Q("Acceleration", 1, "KT_H", BASE, 2)}
    \cup {Q("Angle", 90, "DEG", BASE, 1), QRad("Angle", 1, 2, "m", 1),
          Q("Angle", 1, "DEG", "k", 2)}
    \cup {QBearing("Bearing", 1, 2), QBearing("Bearing", 1, 3), QBearing("Bearing", 0, 1)}
    \cup {QBearing("RelativeBearing", 1, 2), QBearing("RelativeBearing", 1, 3),
          QBearing("RelativeBearing", 1, 4)}
    \cup {Q("Latitude", 30, "DEG", BASE, 1), QRad("Latitude", -1, 4, BASE, 1)}
    \cup {Q("Longitude", 120, "DEG", BASE, 1), Q("Longitude", 1, "DEG", "k", 2)}
    \cup {Q("AngularVelocity", 1, "DEG_S", BASE, 1),
          QRad("AngularVelocity", 1, 1, "k", 1)}
    \cup {Q("Density", 1, "KG_M3", BASE, 1), Q("Density", 3, "G_CM3", "k", 2)}
    \cup {Q("Sensitivity", 1, "DB_V_P_UPA", BASE, 1),
          Q("Sensitivity", 3, "DB_V_P_UPA", "Ki", 2)}
    \cup {d1, d2, t2, s5, t10}

Init == Start(ArithInputs, ArithInputs)
Next == DoMul \/ DoTrueDiv \/ ThenMul \/ ThenTrueDiv
Spec == Init /\ [][Next]_vars

\* Speeds and Times of power 1 whose magnitudes are floats, for * and / in
\* binary64: one of them is x and the other y
QF(cls, m, uname, prefix) ==
    MkQty(cls, FromInt(m), U(UnityTypeOf(cls), uname), prefix, 1)
FloatPrefixes == {BASE, "m"}
FloatSpeeds ==
    {QF("Speed", m, u, p) : m \in 1..(MaxMag + 1), u \in {"M_S", "KM_H", "KT"},
                            p \in FloatPrefixes}
    \cup {QF("Speed", 5, "M_S", BASE)}
FloatTimes ==
    {QF("Time", m, u, p) : m \in 1..(MaxMag + 1), u \in {"S", "M", "H"},
                           p \in FloatPrefixes}
    \cup {QF("Time", 10, "S", BASE), QF("Time", 500, "S", "m")}
InitBinary64 == Start(FloatSpeeds, FloatTimes) \/ Start(FloatTimes, FloatSpeeds)
NextBinary64 == DoMul \/ ThenTrueDiv
SpecBinary64 == InitBinary64 /\ [][NextBinary64]_vars

(***************************************************************************)
(* Properties of Quantity.get                                               *)
(***************************************************************************)
\* C1 (as claimed): x.get(unity, prefix) is
\*   magnitude * (unity.toBase / target.toBase)^power
\*             * (prefix.factor / targetPrefix.factor)^power,
\* the whole prefix ratio raised to the power.
C1_GetRaisesPrefixRatioToPower ==
    op = "get" =>
        r = MkNum(NMul(NMul(x.mag,
                            NPow(NDiv(convert_to_base(x.unity),
                                      convert_to_base(target.unity)), x.power)),
                       NPow(NDiv(as_float(x.prefix), as_float(target.prefix)),
                            x.power)))

(***************************************************************************)
(* Properties of the comparison operators and of + and -                    *)
(***************************************************************************)
SameDimension(a, b) == a.unity.type = b.unity.type
Compatible(a, b) == SameDimension(a, b) /\ a.power = b.power
\* b.get(a.unity, a.prefix)
OwnValue(a, b) == get(b, a.unity, a.prefix).mag
Holds(rel, a, b) == CASE rel = "==" -> a = b
                      [] rel = "!=" -> a # b
                      [] rel = "<"  -> FLt(a, b)
                      [] rel = ">"  -> FLt(b, a)
                      [] rel = "<=" -> ~FLt(b, a)
                      [] rel = ">=" -> ~FLt(a, b)

PlainClasses == QuantityClasses \ {"Bearing", "RelativeBearing", "Latitude", "Longitude"}

\* C3 (as claimed): for compatible x and y, x + y and x - y keep x's unity,
\* prefix and power and have magnitude x.magnitude +/- y.get(x.unity, x.prefix).
C3_AddSubKeepsOwnMagnitude ==
    (op \in {"+", "-"} /\ Compatible(x, y) /\ x.cls \in PlainClasses) =>
        r = MkQty(x.cls,
                  IF op = "+" THEN NAdd(x.mag, OwnValue(x, y))
                  ELSE NSub(x.mag, OwnValue(x, y)),
                  x.unity, x.prefix, x.power)

(***************************************************************************)
(* Properties of * and /                                                    *)
(***************************************************************************)
\* the first operation was x (o) y
FirstWas(o) == op = o /\ a1 = "x" /\ b1 = "y"
NonZero(v) == ~FIsZero(v.mag)

\* C4 (as claimed): x / y for two quantities of one dimension is the plain
\* number x.get / y.get (in x's unity and prefix) when the powers are equal,
\* and a quantity of the dimension with power x.power - y.power when they
\* differ; so (x * y) / x is a quantity of the power of y.
C4_SameDimensionQuotient ==
    /\ (FirstWas("/") /\ x.cls = y.cls /\ x.cls \in PlainClasses /\ NonZero(y)) =>
           IF x.power = y.power
           THEN r = MkNum(NDiv(OwnValue(x, x), OwnValue(x, y)))
           ELSE IsQty(r) /\ r.cls = x.cls /\ r.power = x.power - y.power
    /\ (FirstWas("*") /\ x.cls = y.cls /\ x.cls \in PlainClasses /\ IsQty(r)
          /\ op2 = "/" /\ a2 = "r" /\ b2 = "x" /\ NonZero(x)) =>
           IsQty(r2) /\ r2.cls = x.cls /\ r2.power = r.power - x.power

\* C5 (as claimed): y / y is the number 1 for every quantity y of non-zero
\* magnitude, of every class.
C5_SelfQuotientIsOne ==
    (op = "/" /\ a1 = "y" /\ b1 = "y" /\ NonZero(y)) => r = One

\* the quantities of the unit-table examples
nm1 == Q("Distance", 1, "NM", BASE, 1)
km1 == Q("Distance", 1, "M", "k", 1)
h1 == Q("Time", 1, "H", BASE, 1)
kt1 == Q("Speed", 1, "KT", BASE, 1)
km_h1 == Q("Speed", 1, "KM_H", BASE, 1)
True == MkBool(TRUE)

\* C6: a Distance x over a non-zero Time y of the same power is a Speed in
\* m/s of magnitude x.get_m() / y.get_s(); 1 nm / 1 h == 1 kt and
\* 1 km / 1 h == 1 km/h.
C6_DistanceOverTimeIsSpeed ==
    (FirstWas("/") /\ x.cls = "Distance" /\ y.cls = "Time" /\ x.power = y.power
       /\ NonZero(y)) =>
        /\ r = MkQty("Speed", NDiv(get_m(x).mag, get_s(y).mag), U("Speed", "M_S"),
                     BASE, 1)
        /\ (x = nm1 /\ y = h1) => Compare(r, kt1, "==") = True
        /\ (x = km1 /\ y = h1) => Compare(r, km_h1, "==") = True

\* 1 nm / 1 h was computed and equals 1 kt
C6_Witness ==
    /\ FirstWas("/") /\ x = nm1 /\ y = h1
    /\ IsQty(r) /\ r.cls = "Speed" /\ r.unity = U("Speed", "M_S")
    /\ Compare(r, kt1, "==") = True

\* the rows (LHS dimension, operator, RHS dimension) of the derivation table
DerivationTable ==
    {<<"Distance", "/", "Time">>, <<"Distance", "/", "Speed">>,
     <<"Distance", "*", "Frequency">>, <<"Time", "*", "Speed">>,
     <<"Time", "*", "Acceleration">>, <<"Time", "*", "Frequency">>,
     <<"Speed", "*", "Time">>, <<"Speed", "/", "Time">>, <<"Speed", "/", "Distance">>,
     <<"Angle", "/", "Time">>, <<"AngularVelocity", "*", "Time">>}
\* the triples the classes override beside the rows of the table
OverriddenBesideTable ==
    {<<"Speed", "/", "Frequency">>, <<"Time", "/", "Frequency">>,
     <<"Frequency", "/", "Time">>, <<"Acceleration", "*", "Time">>}
\* the class of their results for operands of power 1
OverriddenResult ==
    (<<"Speed", "/", "Frequency">> :> "Distance")
    @@ (<<"Time", "/", "Frequency">> :> "Time")
    @@ (<<"Frequency", "/", "Time">> :> "Frequency")
    @@ (<<"Acceleration", "*", "Time">> :> "Speed")
\* the first operation was x * y or x / y on two dimensions
CrossDimension == (FirstWas("*") \/ FirstWas("/")) /\ ~SameDimension(x, y)
Triple == <<x.unity.type, op, y.unity.type>>

\* C7 (as claimed): a product or quotient of two dimensions that is no row
\* of the derivation table raises NotImplementedError.
C7_OutsideTableUnsupported ==
    (CrossDimension /\ Triple \notin DerivationTable) =>
        Raises(r, "NotImplementedError")

\* C7 (amended): a product or quotient of two dimensions that is no row of
\* the derivation table and is none of Speed / Frequency, Time / Frequency,
\* Frequency / Time, Acceleration * Time raises NotImplementedError; these
\* four, on operands of power 1 and a non-zero right operand, return a
\* Distance, a Time, a Frequency and a Speed.
C7_OutsideOverridesUnsupported ==
    /\ (CrossDimension /\ Triple \notin (DerivationTable \cup OverriddenBesideTable)) =>
           Raises(r, "NotImplementedError")
    /\ (CrossDimension /\ Triple \in OverriddenBesideTable
          /\ x.power = 1 /\ y.power = 1 /\ NonZero(y)) =>
           IsQty(r) /\ r.cls = OverriddenResult[Triple]

\* Distance * Time raised NotImplementedError
C7_Witness ==
    /\ FirstWas("*") /\ x.cls = "Distance" /\ y.cls = "Time"
    /\ Raises(r, "NotImplementedError")

\* the rows of the derivation table that multiply
MulRows == {<<"Distance", "Frequency">>, <<"Time", "Speed">>, <<"Time", "Acceleration">>,
            <<"Time", "Frequency">>, <<"Speed", "Time">>, <<"AngularVelocity", "Time">>}
\* two results are of one kind and equal
SameResult(a, b) ==
    /\ a.k = b.k
    /\ IF IsQty(a) THEN a.cls = b.cls /\ Compare(a, b, "==") = True ELSE a = b

\* C8 (as claimed): when y * x is a multiplication row of the table that has
\* a value, the swapped product x * y has an equal value.
C8_SwappedProductDefined ==
    (FirstWas("*") /\ <<y.cls, x.cls>> \in MulRows /\ ~Stops(Mul(y, x))) =>
        SameResult(r, Mul(y, x))

\* s is a Speed and t a Time, both of power 1 and of non-zero magnitude
SpeedAndTime(s, t) ==
    /\ s.cls = "Speed" /\ t.cls = "Time"
    /\ s.power = 1 /\ t.power = 1
    /\ NonZero(s) /\ NonZero(t)
\* the Distance of s.get_m_s() * t.get_s() metres
Travelled(s, t) == Distance_m(Mul(get_m_s(s), get_s(t)))
\* v is the quantity q, its magnitude an int or a float
Is(v, q) ==
    /\ v.cls = q.cls /\ v.unity = q.unity /\ v.prefix = q.prefix /\ v.power = q.power
    /\ FloatEq(v.mag, q.mag)
\* the product of the Speed and the Time among x and y was divided by the
\* operand named b
Inverted(b) ==
    /\ FirstWas("*") /\ (SpeedAndTime(x, y) \/ SpeedAndTime(y, x))
    /\ op2 = "/" /\ a2 = "r" /\ b2 = b

\* C9 (as claimed): for a Speed s and a Time t of power 1 and non-zero
\* magnitude, s * t and t * s are the same Distance of
\* s.get_m_s() * t.get_s() metres (5 m/s * 10 s == 50 m), and
\* (s * t) / t == s and (s * t) / s == t.
C9_SpeedTimeProductInverts ==
    /\ (FirstWas("*") /\ SpeedAndTime(x, y)) => r = Travelled(x, y)
    /\ (FirstWas("*") /\ SpeedAndTime(y, x)) => r = Travelled(y, x)
    /\ (FirstWas("*") /\ Is(x, s5) /\ Is(y, t10)) =>
           Compare(r, Q("Distance", 50, "M", BASE, 1), "==") = True
    /\ Inverted("x") => Compare(r2, y, "==") = True
    /\ Inverted("y") => Compare(r2, x, "==") = True

\* the value of a Speed in m/s and of a Time in s
BaseValue(v) == IF v.cls = "Speed" THEN get_m_s(v) ELSE get_s(v)
\* a is b or, in binary64, one of the two values next to b
Near(a, b) ==
    \/ FloatEq(a, b)
    \/ /\ IsDouble(a) /\ IsDouble(b) /\ ~FIsZero(b)
       /\ a \in {Outward(b), Inward(b)}
\* q is of the class of v, in the base unity without prefix, and its
\* magnitude is the base value of v or next to it
NearlyIs(q, v) ==
    /\ IsQty(q) /\ q.cls = v.cls /\ q.power = 1 /\ q.prefix = BASE
    /\ q.unity = U(v.cls, IF v.cls = "Speed" THEN "M_S" ELSE "S")
    /\ Near(q.mag, BaseValue(v).mag)

\* C9 (amended): for a Speed s and a Time t of power 1 and non-zero
\* magnitude, s * t and t * s are the same Distance of
\* s.get_m_s() * t.get_s() metres (5 m/s * 10 s == 50 m), and (s * t) / t is
\* a Speed in m/s and (s * t) / s a Time in s whose magnitude is that of s
\* and of t in the unit or, rounded in binary64, one of its two neighbours.
C9_SpeedTimeProductInvertsNearly ==
    /\ (FirstWas("*") /\ SpeedAndTime(x, y)) => r = Travelled(x, y)
    /\ (FirstWas("*") /\ SpeedAndTime(y, x)) => r = Travelled(y, x)
    /\ (FirstWas("*") /\ Is(x, s5) /\ Is(y, t10)) =>
           Compare(r, Q("Distance", 50, "M", BASE, 1), "==") = True
    /\ Inverted("x") => NearlyIs(r2, y)
    /\ Inverted("y") => NearlyIs(r2, x)

\* 3 m/s * 3 ms was divided by the 3 ms again and is next to 3 m/s, not
\* equal to it
C9_Witness ==
    /\ Is(x, Q("Speed", 3, "M_S", BASE, 1)) /\ Is(y, Q("Time", 3, "S", "m", 1))
    /\ Inverted("y")
    /\ NearlyIs(r2, x)
    /\ Compare(r2, x, "==") = MkBool(FALSE)

\* the Acceleration of d.get_m() / t.get_s()^2 m/s^2
Accelerated(d, t) ==
    MkQty("Acceleration", NDiv(get_m(d).mag, NPow(get_s(t).mag, 2)),
          U("Acceleration", "M_S2"), BASE, 1)
\* y is a Time of power 1 and of non-zero magnitude
TimeY == y.cls = "Time" /\ y.power = 1 /\ NonZero(y)

\* C10 (as claimed): for a Distance x and a non-zero Time y of power 1,
\* x / (y * y) and (x / y) / y are the Acceleration of
\* x.get_m() / y.get_s()^2 m/s^2; for an Acceleration x, x * (y * y) is a
\* Distance and x * y a Speed.
C10_DistanceOverTimeSquared ==
    /\ (op = "*" /\ a1 = "y" /\ b1 = "y" /\ TimeY /\ op2 = "/" /\ a2 = "x" /\ b2 = "r"
          /\ x.cls = "Distance" /\ x.power = 1) => r2 = Accelerated(x, y)
    /\ (FirstWas("/") /\ TimeY /\ op2 = "/" /\ a2 = "r" /\ b2 = "y"
          /\ x.cls = "Distance" /\ x.power = 1) => r2 = Accelerated(x, y)
    /\ (op = "*" /\ a1 = "y" /\ b1 = "y" /\ TimeY /\ op2 = "*" /\ a2 = "x" /\ b2 = "r"
          /\ x.cls = "Acceleration" /\ x.power = 1) => IsQty(r2) /\ r2.cls = "Distance"
    /\ (FirstWas("*") /\ TimeY /\ x.cls = "Acceleration" /\ x.power = 1) =>
           IsQty(r) /\ r.cls = "Speed"


(***************************************************************************)
(* The caller of the reciprocal: 1 / x, and then 1 / (1 / x)                *)
(***************************************************************************)
\* 1 / x
DoReciprocal == First("1/", "1", "x", TrueDiv(One, x)) /\ UNCHANGED target
\* 1 / r for the quantity r = 1 / x
ThenReciprocal ==
    /\ pc = "one"
    /\ op = "1/"
    /\ IsQty(r)
    /\ pc' = "two"
    /\ op2' = "1/" /\ a2' = "1" /\ b2' = "r"
    /\ r2' = TrueDiv(One, r)
    /\ UNCHANGED <<x, y, op, a1, b1, target, r, world>>

ReciprocalInputs == {q \in ArithInputs : ~FIsZero(q.mag)}
InitReciprocal == Start(ReciprocalInputs, {None})
NextReciprocal == DoReciprocal \/ ThenReciprocal
SpecReciprocal == InitReciprocal /\ [][NextReciprocal]_vars

(***************************************************************************)
(* Properties of the reciprocal                                             *)
(***************************************************************************)
\* the class, unity and power of 1 / q as the reciprocal law gives them
Inner(q) ==
    CASE q.cls = "Time"      -> <<"Frequency", U("Frequency", "HZ"), q.power>>
      [] q.cls = "Frequency" -> <<"Time", U("Time", "S"), q.power>>
      [] OTHER               -> <<q.cls, q.unity, -q.power>>

\* C11 (as claimed): for every quantity x of non-zero magnitude, 1 / x is a
\* quantity (a Frequency in Hz for a Time, a Time in seconds for a Frequency,
\* else of the class and unity of x with the power negated), and 1 / (1 / x)
\* is a quantity of the class of x that compares equal to x.
C11_ReciprocalOfReciprocal ==
    /\ (pc # "start" /\ op = "1/") =>
           IsQty(r) /\ <<r.cls, r.unity, r.power>> = Inner(x)
    /\ (pc = "two" /\ op2 = "1/") =>
           IsQty(r2) /\ r2.cls = x.cls /\ Compare(r2, x, "==") = MkBool(TRUE)


(***************************************************************************)
(* The caller of **: x ** y for a quantity x and an exponent y              *)
(***************************************************************************)
\* x ** y
DoPow == First("**", "x", "y", Pow(x, y)) /\ UNCHANGED target

\* the exponents: the square root, the square, the reciprocal and the
\* reciprocal of the square root
Exponents == {MkNum(NFrac(1, 2)), MkNum(NInt(2)), MkNum(NInt(-1)), MkNum(NFrac(-1, 2))}
\* d1 * d2 of the example script with the two distances of 5000 m, and areas
\* with a prefix
PowInputs ==
    ArithInputs
    \cup {Q("Distance", 25000000, "M", BASE, 2), Q("Distance", 4, "M", "M", 2),
          Q("Distance", 4, "M", BASE, 2), Q("Time", 9, "S", BASE, 2)}
InitPow == Start(PowInputs, Exponents)
NextPow == DoPow
SpecPow == InitPow /\ [][NextPow]_vars

(***************************************************************************)
(* Properties of **                                                         *)
(***************************************************************************)
\* the value of the quantity q expressed in its own unity with the BASE prefix
InBase(q) == NMul(q.mag, NPow(as_float(q.prefix), q.power))
\* x ** y is defined: x # 0 when y < 0, and the power and the value it
\* should have are numbers of the model
PowDefined ==
    /\ ~(FIsZero(x.mag) /\ y.mag.n < 0)
    /\ Integral(NMul(NInt(x.power), y.mag))
    /\ NFloatPow(InBase(x), y.mag) # NaV
    /\ r.k # "unmodelled"

\* C12 (as claimed): x ** y is a quantity of the class and unity of x whose
\* power is x.power * y and whose value, expressed in the unity of x with the
\* BASE prefix, is the value of x so expressed raised to y.
C12_PowRaisesBaseValue ==
    (op = "**" /\ PowDefined) =>
        /\ IsQty(r) /\ r.cls = x.cls /\ r.unity = x.unity
        /\ NInt(r.power) = NMul(NInt(x.power), y.mag)
        /\ InBase(r) = NFloatPow(InBase(x), y.mag)


(***************************************************************************)
(* The caller that reads a quantity back in the unity and prefix it was     *)
(* constructed with                                                         *)
(***************************************************************************)
\* x.get(x.unity, x.prefix)
DoGetOwn ==
    /\ First("get", "x", "", get(x, x.unity, x.prefix))
    /\ target' = [unity |-> x.unity, prefix |-> x.prefix]

\* magnitudes: the ints of -MaxMag .. MaxMag and the floats 0.1 .. MaxMag / 10
OwnMagnitudes ==
    {NInt(m) : m \in (-MaxMag)..MaxMag} \cup {ToDouble(NFrac(m, 10)) : m \in 1..MaxMag}
\* Quantity(m, U, P) with the default power 1, for every unity and prefix
OwnInputs ==
    {MkQty(u.type, m, u, p, 1) : u \in Unity, p \in Prefix, m \in OwnMagnitudes}
InitOwn == Start(OwnInputs, {None})
NextOwn == DoGetOwn
SpecOwn == InitOwn /\ [][NextOwn]_vars

(***************************************************************************)
(* Properties of get in the own unity and prefix                            *)
(***************************************************************************)
\* C13: a quantity constructed as Quantity(m, U, P) with the default power 1
\* gives get(U, P) == m, for every unity U, every prefix P (metric and
\* binary) and every magnitude m.
C13_GetOwnIsMagnitude ==
    (op = "get" /\ x.power = 1 /\ target = [unity |-> x.unity, prefix |-> x.prefix]) =>
        IsNum(r) /\ FloatEq(r.mag, x.mag)

\* a float magnitude was read back under a binary prefix in a unity that is
\* not the base of its dimension
C13_Witness ==
    /\ op = "get" /\ x.power = 1
    /\ target = [unity |-> x.unity, prefix |-> x.prefix]
    /\ x.prefix = "Ki" /\ x.unity = U("Distance", "YD")
    /\ IsDouble(x.mag)
    /\ r = MkNum(x.mag)


(***************************************************************************)
(* The caller of the bearing classes: an Angle x is coerced or made a       *)
(* Bearing or a RelativeBearing under a reference, and the result is read   *)
(* back                                                                     *)
(***************************************************************************)
References == [ECCW |-> ECCW, NCW |-> NCW, CCW |-> CCW, CW |-> CW]

\* Bearing.coerce(x)
DoCoerce == First("coerce", "x", "", Invoke("coerce", x, None)) /\ UNCHANGED target
\* Bearing(x, ECCW), Bearing(x, NCW): the factories eccw_* and ncw_*
DoBearing ==
    \E ref \in {"ECCW", "NCW"} :
        /\ First("Bearing", "x", ref, Invoke("Bearing", x, Ref(References[ref])))
        /\ UNCHANGED target
\* RelativeBearing(x, CCW), RelativeBearing(x, CW): the factories ccw_* and
\* cw_*
DoRelativeBearing ==
    \E ref \in {"CCW", "CW"} :
        /\ First("RelativeBearing", "x", ref,
                 Invoke("RelativeBearing", x, Ref(References[ref])))
        /\ UNCHANGED target
\* r.get_eccw_rad(), r.get_ncw_rad(), and r.get_ccw_rad(), r.get_cw_rad() of
\* a RelativeBearing r
ThenRead ==
    \E getter \in {"get_eccw_rad", "get_ncw_rad", "get_ccw_rad", "get_cw_rad"} :
        /\ pc = "one"
        /\ op \in {"Bearing", "RelativeBearing"}
        /\ IsQty(r)
        /\ pc' = "two"
        /\ op2' = getter /\ a2' = "r" /\ b2' = ""
        /\ r2' = Invoke(getter, r, None)
        /\ UNCHANGED <<x, y, op, a1, b1, target, r, world>>

\* the angles are drawn from -MaxMag turns .. MaxMag turns, in eighths of a
\* turn
MaxEighths == 8 * MaxMag
\* Angle.rad(k * pi / 4) and Angle.deg(45 * k)
AngleInputs ==
    {QRad("Angle", k, 4, BASE, 1) : k \in (-MaxEighths)..MaxEighths}
    \cup {Q("Angle", 45 * k, "DEG", BASE, 1) : k \in (-MaxEighths)..MaxEighths}
InitBearing == Start(AngleInputs, {None})
NextBearing == DoCoerce \/ DoBearing \/ DoRelativeBearing \/ ThenRead
SpecBearing == InitBearing /\ [][NextBearing]_vars

(***************************************************************************)
(* Properties of the bearing classes                                        *)
(***************************************************************************)
\* 0 <= a < 2 pi
InTurn(a) == ~FLt(a, NZero) /\ FLt(a, TwoPi.mag)

\* C14 (as claimed): Bearing.coerce returns an angle of [0, 2 pi) radians
\* for every angle, and every Bearing and RelativeBearing stores a magnitude
\* of [0, 2 pi) radians.
C14_CoercedIntoTurn ==
    (op \in {"coerce", "Bearing", "RelativeBearing"}) =>
        IsQty(r) /\ r.unity = RAD /\ r.prefix = BASE /\ r.power = 1 /\ InTurn(r.mag)


(***************************************************************************)
(* The caller of bearing arithmetic: x + y and x - y for bearings x and y,  *)
(* and then the difference added back to y                                  *)
(***************************************************************************)
\* y + r and r + y for the difference r = x - y
ThenAddBack ==
    \E ab \in {<<"y", "r">>, <<"r", "y">>} :
        /\ pc = "one"
        /\ op = "-"
        /\ IsQty(r)
        /\ pc' = "two"
        /\ op2' = "+" /\ a2' = ab[1] /\ b2' = ab[2]
        /\ r2' = Add(Operand(ab[1]), Operand(ab[2]))
        /\ UNCHANGED <<x, y, op, a1, b1, target, r, world>>

BearingClasses == {"Bearing", "RelativeBearing"}
\* bearings of k / 8 turn
ExactBearings == {QBearing(cls, k, 4) : cls \in BearingClasses, k \in 0..7}
\* bearings of k / 10 radians, as floats, below a turn
Tenths == {0, 1, 3, 7, 10, 15, 16, 25, 31, 32, 47, 62}
FloatBearings ==
    {MkQty(cls, ToDouble(NFrac(k, 10)), RAD, BASE, 1) : cls \in BearingClasses,
                                                       k \in Tenths}
InitBearingArith ==
    Start(ExactBearings, ExactBearings) \/ Start(FloatBearings, FloatBearings)
NextBearingArith == DoAdd \/ DoSub \/ ThenAddBack
SpecBearingArith == InitBearingArith /\ [][NextBearingArith]_vars

(***************************************************************************)
(* Properties of bearing arithmetic                                         *)
(***************************************************************************)
\* the angle v of (-2 pi, 4 pi) modulo 2 pi
IntoTurn(v) ==
    IF Compare(v, MkNum(NZero), "<") = True THEN Add(v, TwoPi)
    ELSE IF Compare(v, TwoPi, ">=") = True THEN Sub(v, TwoPi)
    ELSE v
\* the operand of x + y that is of the class cls
TheOperand(cls) == IF x.cls = cls THEN x ELSE y
Absolute(q) == IsQty(q) /\ q.cls = "Bearing"
Relative(q) == IsQty(q) /\ q.cls = "RelativeBearing"

\* the difference of two absolute bearings is the RelativeBearing of the
\* difference of their ECCW angles modulo 2 pi
DifferenceIsRelative ==
    (op = "-" /\ Absolute(x) /\ Absolute(y)) =>
        /\ Relative(r)
        /\ get_ccw_rad(r) = IntoTurn(Sub(get_eccw_rad(x), get_eccw_rad(y)))
\* the sum of an absolute and a relative bearing, in either order, is the
\* absolute Bearing of the sum of the ECCW and the CCW angle modulo 2 pi
SumIsAbsolute ==
    (op = "+" /\ {x.cls, y.cls} = BearingClasses) =>
        /\ Absolute(r)
        /\ get_eccw_rad(r) = IntoTurn(Add(get_eccw_rad(TheOperand("Bearing")),
                                          get_ccw_rad(TheOperand("RelativeBearing"))))

\* C15 (as claimed): for absolute bearings x and y, x - y is a
\* RelativeBearing of CCW angle (x_eccw - y_eccw) mod 2 pi; an absolute and a
\* relative bearing add, in either order, to an absolute Bearing of ECCW
\* angle (b_eccw + r_ccw) mod 2 pi; and y + (x - y) equals x.
C15_DifferenceAddsBack ==
    /\ DifferenceIsRelative
    /\ SumIsAbsolute
    /\ (pc = "two" /\ Absolute(x) /\ Absolute(y)) => Compare(r2, x, "==") = True

\* 2^-49: the float rounding of a difference of angles, of a turn added to
\* it and of a sum of two angles
Tolerance == MkDouble(1, MinMantissa, 1 - Precision - 49)
\* |a - b| for two floats
Distance64(a, b) == [RSub(ToDouble(a), ToDouble(b)) EXCEPT !.sgn = 1]
\* the angles a and b of [0, 2 pi] are the same, in floats up to Tolerance,
\* modulo 2 pi
SameAngle(a, b) ==
    IF Exact(a, b) THEN a = b \/ {a, b} = {NZero, TwoPi.mag}
    ELSE \/ ~RLt(Tolerance, Distance64(a, b))
         \/ ~RLt(Distance64(a, b), RSub(ToDouble(TwoPi.mag), Tolerance))

\* C15 (amended): as claimed, but y + (x - y) is the absolute Bearing of the
\* ECCW angle of x up to the rounding of the float operations: within 2^-49
\* radians modulo 2 pi.
C15_DifferenceAddsBackNearly ==
    /\ DifferenceIsRelative
    /\ SumIsAbsolute
    /\ (pc = "two" /\ Absolute(x) /\ Absolute(y)) =>
           Absolute(r2) /\ SameAngle(r2.mag, x.mag)

\* y + (x - y) was computed for two absolute bearings in floats and does not
\* compare equal to x
C15_Witness ==
    /\ pc = "two" /\ Absolute(x) /\ Absolute(y) /\ a2 = "y"
    /\ IsDouble(x.mag) /\ Absolute(r2)
    /\ Compare(r2, x, "==") = MkBool(FALSE)
    /\ SameAngle(r2.mag, x.mag)

\* C16: adding or subtracting two RelativeBearings yields a RelativeBearing
\* (not an absolute Bearing) whose CCW angle is the sum, respectively the
\* difference, of their CCW angles modulo 2 pi.
C16_RelativeStaysRelative ==
    (pc = "one" /\ Relative(x) /\ Relative(y)) =>
        /\ Relative(r)
        /\ get_ccw_rad(r) = IntoTurn(IF op = "+"
                                     THEN Add(get_ccw_rad(x), get_ccw_rad(y))
                                     ELSE Sub(get_ccw_rad(x), get_ccw_rad(y)))


(***************************************************************************)
(* The caller of the bearing references: an Angle x, exact or a float, is   *)
(* made a Bearing or a RelativeBearing under a reference and read back      *)
(***************************************************************************)
\* Angle.rad(k / 10) and Angle.rad(-k / 10) for the floats k / 10
FloatAngles ==
    {MkQty("Angle", ToDouble(NFrac(s * k, 10)), RAD, BASE, 1) : s \in {-1, 1}, k \in Tenths}
InitReference == Start(AngleInputs \cup FloatAngles, {None})
SpecReference == InitReference /\ [][NextBearing]_vars

(***************************************************************************)
(* Properties of the bearing references                                     *)
(***************************************************************************)
\* a and b are the same angle modulo 2 pi
Congruent(a, b) ==
    IF Exact(a.mag, b.mag) THEN Fmod(NSub(a.mag, b.mag), TwoPi.mag) = NZero
    ELSE a = IntoTurn(b)
\* x is an angle of [0, 2 pi)
XInTurn ==
    /\ Compare(get_rad(x), MkNum(NZero), ">=") = True
    /\ Compare(get_rad(x), TwoPi, "<") = True
\* the Bearing r was made of x under the reference ref and read back by
\* the getter
ReadBack(ref, getter) ==
    pc = "two" /\ op = "Bearing" /\ b1 = ref /\ op2 = getter

\* an ECCW input is stored unchanged and an NCW input x as pi/2 - x, modulo
\* 2 pi
StoredInECCW ==
    (op = "Bearing") =>
        /\ Absolute(r)
        /\ Congruent(MkNum(r.mag),
                     IF b1 = "ECCW" THEN get_rad(x) ELSE Sub(HalfPi, get_rad(x)))
\* get_ncw is (pi/2 - get_eccw) mod 2 pi
ReadInNCW ==
    (pc = "two" /\ op = "Bearing" /\ op2 = "get_ncw_rad") =>
        r2 = IntoTurn(Sub(HalfPi, get_eccw_rad(r)))

\* C17 (as claimed): an ECCW input is stored unchanged (mod 2 pi) and an NCW
\* input x as (pi/2 - x) mod 2 pi; for x in [0, 2 pi)
\* Bearing.eccw_rad(x).get_eccw_rad() == x and
\* Bearing.ncw_rad(x).get_ncw_rad() == x; and for every Bearing get_ncw is
\* (pi/2 - get_eccw) mod 2 pi.
C17_ReferenceReadsBack ==
    /\ StoredInECCW
    /\ ReadInNCW
    /\ (ReadBack("ECCW", "get_eccw_rad") /\ XInTurn) =>
           Compare(r2, get_rad(x), "==") = True
    /\ (ReadBack("NCW", "get_ncw_rad") /\ XInTurn) =>
           Compare(r2, get_rad(x), "==") = True

\* C17 (amended): as claimed, but Bearing.ncw_rad(x).get_ncw_rad() is x up
\* to the rounding of the two float subtractions from pi/2 and of the turns
\* added: within 2^-49 radians modulo 2 pi.
C17_ReferenceReadsBackNearly ==
    /\ StoredInECCW
    /\ ReadInNCW
    /\ (ReadBack("ECCW", "get_eccw_rad") /\ XInTurn) =>
           Compare(r2, get_rad(x), "==") = True
    /\ (ReadBack("NCW", "get_ncw_rad") /\ XInTurn) =>
           IsNum(r2) /\ SameAngle(r2.mag, get_rad(x).mag)

\* a float x of [0, 2 pi) was made a Bearing under NCW and read back under
\* NCW as another float
C17_Witness ==
    /\ ReadBack("NCW", "get_ncw_rad") /\ XInTurn
    /\ IsDouble(x.mag) /\ IsNum(r2)
    /\ Compare(r2, get_rad(x), "==") = MkBool(FALSE)
    /\ SameAngle(r2.mag, x.mag)


(***************************************************************************)
(* The caller of DMS: a float x of decimal degrees is decomposed by         *)
(* DMS.by_degree and the DMS is read back by get_degrees                    *)
(***************************************************************************)
\* DMS.by_degree(x)
DoByDegree == First("by_degree", "x", "", Invoke("by_degree", x, None)) /\ UNCHANGED target
\* r.get_degrees()
ThenGetDegrees ==
    /\ pc = "one"
    /\ op = "by_degree"
    /\ IsDMS(r)
    /\ pc' = "two"
    /\ op2' = "get_degrees" /\ a2' = "r" /\ b2' = ""
    /\ r2' = Invoke("get_degrees", r, None)
    /\ UNCHANGED <<x, y, op, a1, b1, target, r, world>>

\* the float of num / den
Float(num, den) == MkNum(ToDouble(NFrac(num, den)))
\* hundredths of a degree whose decomposition does not add up to the float
Hundredths == {52, 96, 99, 164, 178, 199}
\* the floats k/8 and k/10 of -MaxMag .. MaxMag degrees, some hundredths,
\* and 20.5, -43.6474 and 179.99
DegreeInputs ==
    {Float(k, 8) : k \in (-8 * MaxMag)..(8 * MaxMag)}
    \cup {Float(k, 10) : k \in (-10 * MaxMag)..(10 * MaxMag)}
    \cup {Float(s * k, 100) : s \in {-1, 1}, k \in Hundredths}
    \cup {Float(41, 2), Float(-436474, 10000), Float(17999, 100)}
InitDMS == Start(DegreeInputs, {None})
NextDMS == DoByDegree \/ ThenGetDegrees
SpecDMS == InitDMS /\ [][NextDMS]_vars

(***************************************************************************)
(* Properties of DMS                                                        *)
(***************************************************************************)
\* C19: DMS.by_degree(d).get_degrees() equals d, sign included, for every d
\* of (-180, 180), those of (-1, 0) included.
C19_DegreesReadBack ==
    (pc = "two" /\ op2 = "get_degrees") => Compare(r2, x, "==") = True

\* a is a Python int
IsInt(a) == ~IsDouble(a) /\ Whole(a)
\* 0 <= v < 60
BelowSixty(v) ==
    /\ Compare(v, MkNum(NZero), ">=") = True
    /\ Compare(v, Sixty, "<") = True
\* the degree, minute and second of by_degree(x): an int degree of
\* floor(|x|) with the sign of x, an int minute and a second of [0, 60)
Decomposed ==
    /\ IsDMS(r)
    /\ IsInt(r.mag[1]) /\ IsInt(r.mag[2]) /\ IsDouble(r.mag[3])
    /\ r.mag[1] = NInt((IF Negative(x.mag) THEN -1 ELSE 1) * Truncated(x.mag))
    /\ BelowSixty(minute(r)) /\ BelowSixty(second(r))
\* |degree| + minute/60 + second/3600
Recomposed ==
    Add(Add(MkNum(abs(r.mag[1])), TrueDiv(minute(r), Sixty)),
        TrueDiv(second(r), MkNum(NInt(3600))))
\* by_degree(20.5) == (20, 30, 0)
Example20_5 == x = Float(41, 2) => r.mag = <<NInt(20), NInt(30), DZero>>

\* C20 (as claimed): DMS.by_degree(d) has an int degree with
\* |degree| = floor(|d|) carrying the sign, an int minute of [0, 60) and a
\* second of [0, 60) with |degree| + minute/60 + second/3600 == |d|, and
\* by_degree(20.5) == (20, 30, 0).
C20_DegreeDecomposes ==
    (op = "by_degree") =>
        /\ Decomposed
        /\ Compare(Recomposed, MkNum(abs(x.mag)), "==") = True
        /\ Example20_5

\* C20 (amended): as claimed, but |degree| + minute/60 + second/3600 is |d|
\* or, after the rounding of the float operations, one of the two floats
\* next to |d|.
C20_DegreeDecomposesNearly ==
    (op = "by_degree") =>
        /\ Decomposed
        /\ IsNum(Recomposed) /\ Near(Recomposed.mag, abs(x.mag))
        /\ Example20_5

\* a float was decomposed whose degree, minute and second add up to a float
\* next to it
C20_Witness ==
    /\ op = "by_degree" /\ IsDMS(r)
    /\ Compare(Recomposed, MkNum(abs(x.mag)), "==") = MkBool(FALSE)
    /\ Near(Recomposed.mag, abs(x.mag))
    /\ Compare(minute(r), MkNum(NZero), ">") = True


(***************************************************************************)
(* The caller of Latitude and Longitude: a number or a DMS x is handed to   *)
(* a factory, or an operator is applied to a Latitude or Longitude x and a  *)
(* y                                                                        *)
(***************************************************************************)
LatLonClasses == {"Latitude", "Longitude"}
\* cls.deg(x), cls.rad(x) for a number x and cls.dms(x) for a DMS x
DoFactory ==
    \E cls \in LatLonClasses, name \in {"deg", "rad", "dms"} :
        /\ IF name = "dms" THEN IsDMS(x) ELSE IsNum(x)
        /\ First(name, "x", cls, Invoke(name, x, Class(cls)))
        /\ UNCHANGED target
Operators == [add |-> "__add__", sub |-> "__sub__", mul |-> "__mul__",
              truediv |-> "__truediv__", pow |-> "__pow__"]
Half == MkNum(NFrac(1, 2))
\* x <operator> y and y <operator> x; ** is modelled for whole exponents
DoOperator ==
    \E name \in DOMAIN Operators, ab \in {<<"x", "y">>, <<"y", "x">>} :
        /\ IsQty(x)
        /\ name = "pow" => Operand(ab[2]) # Half
        /\ First(name, ab[1], ab[2],
                 Invoke(Operators[name], Operand(ab[1]), Operand(ab[2])))
        /\ UNCHANGED target

\* DMS(degree, minute, second) of three ints
DMSOf(d, m, s) == MkDMS(MkNum(NInt(d)), MkNum(NInt(m)), MkNum(NInt(s)))
\* numbers of degrees and of radians around the limits, and DMS objects
FactoryInputs ==
    {MkNum(NInt(30 * k)) : k \in (-4 * MaxMag)..(4 * MaxMag)}
    \cup {MkNum(NInt(95)), MkNum(NInt(1)), MkNum(NInt(-2))}
    \cup {MkNum(NMul(NFrac(k, 4), NPi)) : k \in (-3 * MaxMag)..(3 * MaxMag)}
    \cup {DMSOf(d, m, 0) : d \in {-181, -180, -95, -90, -89, -45, 0, 45, 89, 90, 95, 180, 181},
                           m \in {0, 30}}
\* the Latitudes and Longitudes of the range, in degrees and in radians
LatLonInputs ==
    {Q("Latitude", 30 * k, "DEG", BASE, 1) : k \in -3..3}
    \cup {QRad("Latitude", k, 4, BASE, 1) : k \in -2..2}
    \cup {Q("Longitude", 30 * k, "DEG", BASE, 1) : k \in -6..6}
    \cup {QRad("Longitude", k, 4, BASE, 1) : k \in -4..4}
\* the other operand: a Latitude or Longitude, an Angle, or a number
OtherInputs ==
    LatLonInputs
    \cup {Q("Angle", 60, "DEG", BASE, 1)}
    \cup {MkNum(NInt(k)) : k \in (-MaxMag)..MaxMag} \cup {Half}
InitLatLon == Start(FactoryInputs, {None}) \/ Start(LatLonInputs, OtherInputs)
NextLatLon == DoFactory \/ DoOperator
SpecLatLon == InitLatLon /\ [][NextLatLon]_vars

(***************************************************************************)
(* Properties of Latitude and Longitude                                     *)
(***************************************************************************)
\* pi/2 for a Latitude and pi for a Longitude
Bound(cls) == IF cls = "Latitude" THEN HalfPi ELSE MkNum(NPi)
\* -bound <= v <= bound for the number v
Within(v, cls) ==
    /\ Compare(v, Sub(MkNum(NZero), Bound(cls)), ">=") = True
    /\ Compare(v, Bound(cls), "<=") = True
\* q is not a Latitude or Longitude, or holds a value of its range
InRange(q) ==
    (IsQty(q) /\ q.cls \in LatLonClasses) => Within(get_rad(q), q.cls)
\* r is the object of class cls of rad radians if that is in the range, and
\* the ValueError if it is not; an exception of computing rad propagates
Made(cls, rad) ==
    IF Stops(rad) THEN r = rad
    ELSE IF Within(rad, cls)
    THEN IsQty(r) /\ r.cls = cls /\ r.power = 1 /\ Compare(get_rad(r), rad, "==") = True
    ELSE r = Raise("ValueError")
\* the radians the factory op was given with x
Given ==
    CASE op = "deg" -> get_rad(Angle_deg(x))
      [] op = "rad" -> x
      [] op = "dms" -> get_rad(Angle_deg(DMS_get_degrees(x)))
\* the radians of the result of the operator op on x and the number or
\* quantity y
Computed ==
    CASE op = "add"     -> Add(get_rad(x), get_rad(y))
      [] op = "sub"     -> Sub(get_rad(x), get_rad(y))
      [] op = "mul"     -> Mul(get_rad(x), y)
      [] op = "truediv" -> TrueDiv(get_rad(x), y)
\* x + y and x - y for a y that is an angle, x * y, y * x and x / y for a
\* number y
Scales ==
    \/ op \in {"add", "sub"} /\ a1 = "x" /\ isinstance(y, "Angle") /\ y.power = 1
    \/ op = "mul" /\ IsNum(y)
    \/ op = "truediv" /\ a1 = "x" /\ IsNum(y)

\* C18: no Latitude holds a value outside [-pi/2, pi/2] radians and no
\* Longitude one outside [-pi, pi]: a factory (deg, rad, dms) and an
\* arithmetic operator on a Latitude or Longitude return the object of the
\* value when it is in the range, the bounds included, and fail with
\* ValueError when it is not, without clamping.
C18_LatLonInRange ==
    /\ InRange(x) /\ InRange(y) /\ InRange(r)
    /\ (op \in {"deg", "rad", "dms"}) => Made(b1, Given)
    /\ (op \in DOMAIN Operators /\ Scales) => Made(x.cls, Computed)
    /\ (op = "deg" /\ b1 = "Latitude" /\ x = MkNum(NInt(95))) => r = Raise("ValueError")
    /\ (op = "deg" /\ b1 = "Latitude" /\ x = MkNum(NInt(90))) => IsQty(r)
    /\ (op = "rad" /\ b1 = "Longitude" /\ x = MkNum(NNeg(NPi))) => IsQty(r)

\* Latitude.deg(60) + Latitude.deg(60) raised ValueError
C18_Witness ==
    /\ op = "add" /\ a1 = "x"
    /\ Is(x, Q("Latitude", 60, "DEG", BASE, 1)) /\ Is(y, Q("Latitude", 60, "DEG", BASE, 1))
    /\ r = Raise("ValueError")


(***************************************************************************)
(* The caller of DMS.to_string: a float x of decimal degrees is decomposed  *)
(* by DMS.by_degree and the DMS is rendered with the arguments y            *)
(***************************************************************************)
\* r.to_string(precision, show_signal)
ThenToString ==
    /\ pc = "one"
    /\ op = "by_degree"
    /\ IsDMS(r)
    /\ pc' = "two"
    /\ op2' = "to_string" /\ a2' = "r" /\ b2' = "y"
    /\ r2' = Invoke("to_string", r, y)
    /\ UNCHANGED <<x, y, op, a1, b1, target, r, world>>

\* precisions are drawn from 0 .. MaxPrecision
MaxPrecision == 3
ToStringArgs == {MkArgs(p, s) : p \in 0..MaxPrecision, s \in BOOLEAN}
InitToString == Start(DegreeInputs, ToStringArgs)
NextToString == DoByDegree \/ ThenToString
SpecToString == InitToString /\ [][NextToString]_vars

(***************************************************************************)
(* Properties of DMS.to_string                                              *)
(***************************************************************************)
\* DMS.by_degree(-43.6474).to_string(precision=3) was called
Example43 ==
    /\ pc = "two" /\ op2 = "to_string"
    /\ x = Float(-436474, 10000)
    /\ y = MkArgs(3, FALSE)
\* the str ends in a point, p decimals and the mark of the seconds, and
\* begins with no sign
ShowsDecimals(s, p) ==
    /\ Len(s) > p + 2
    /\ s[Len(s)] = SecondMark
    /\ s[Len(s) - p - 1] = "."
    /\ \A i \in (Len(s) - p)..(Len(s) - 1) : IsDigit(s[i])
    /\ Head(s) # "-"

\* C21 (as claimed): DMS.by_degree(-43.6474).to_string(precision=3) is
\* 43°38'51.000": degree 43 without sign, minute 38 and seconds 51.000.
C21_RendersExample ==
    Example43 =>
        r2 = MkStr(<<"4", "3", DegreeMark, "3", "8", MinuteMark,
                     "5", "1", ".", "0", "0", "0", SecondMark>>)

\* C21 (amended): DMS.by_degree(-43.6474).to_string(precision=3) is
\* 43°38'50.640": degree 43 without sign, minute 38 and the seconds 50.64
\* of the angle; and every to_string(precision=3) without show_signal shows
\* the seconds with exactly three decimals and no sign before the degree.
C21_RendersSeconds ==
    /\ Example43 =>
           r2 = MkStr(<<"4", "3", DegreeMark, "3", "8", MinuteMark,
                        "5", "0", ".", "6", "4", "0", SecondMark>>)
    /\ (pc = "two" /\ op2 = "to_string" /\ y = MkArgs(3, FALSE)) =>
           IsStr(r2) /\ ShowsDecimals(r2.mag, 3)

\* the example was rendered
C21_Witness == Example43 /\ IsStr(r2) /\ Len(r2.mag) = 13


(***************************************************************************)
(* The caller of DMS.by_string: a str x is parsed, or a DMS x is rendered   *)
(* by to_string() and the str, with the letter of a hemisphere after it,    *)
(* is parsed again                                                          *)
(***************************************************************************)
\* DMS.by_string(x)
DoByString ==
    /\ IsStr(x)
    /\ First("by_string", "x", "", Invoke("by_string", x, None))
    /\ UNCHANGED target
\* x.to_string()
DoToString ==
    /\ IsDMS(x)
    /\ First("to_string", "x", "y", Invoke("to_string", x, y))
    /\ UNCHANGED target
Hemispheres == {"N", "S", "E", "W"}
\* DMS.by_string(r + h)
ThenByString ==
    \E h \in Hemispheres :
        /\ pc = "one"
        /\ op = "to_string"
        /\ IsStr(r)
        /\ pc' = "two"
        /\ op2' = "by_string" /\ a2' = "r" /\ b2' = h
        /\ r2' = Invoke("by_string", MkStr(r.mag \o <<h>>), None)
        /\ UNCHANGED <<x, y, op, a1, b1, target, r, world>>

\* tokens: numerals with and without sign, point and blanks, the empty
\* token and tokens that are no numerals
Tokens ==
    {<<>>, <<"2", "0">>, <<"0", "7">>, <<"3", "0", ".", "5">>, <<" ", "0", ".", "0", "0", "0">>,
     <<"-", "5">>, <<"+", "7", " ">>, <<".", "5">>, <<"4", ".">>, <<"x">>, <<".">>,
     <<"1", ".", "2", ".", "3">>, <<"1", " ", "2">>, <<"-">>, <<"2", "-">>}
\* what follows the last token
Endings ==
    {<<>>, <<"W">>, <<"S">>, <<"N">>, <<SecondMark>>, <<SecondMark, "W">>,
     <<SecondMark, "S">>, <<SecondMark, "E">>, <<SecondMark, "2", "W">>, <<"W", " ">>}
\* one, two and three tokens between the marks, and an ending
StringInputs ==
    {MkStr(t \o e) : t \in Tokens, e \in Endings}
    \cup {MkStr(t \o <<DegreeMark>> \o u \o e) : t \in Tokens, u \in Tokens, e \in Endings}
    \cup {MkStr(t \o <<DegreeMark>> \o u \o <<MinuteMark>> \o v \o e) :
              t \in {<<>>, <<"2", "0">>, <<"x">>, <<"-", "5">>},
              u \in {<<>>, <<"0", "7">>, <<"3", "0", ".", "5">>, <<"x">>},
              v \in Tokens, e \in Endings}
    \cup {MkStr(<<"7", MinuteMark, "8", SecondMark, "9", DegreeMark, "1">> \o e) :
              e \in Endings}
\* the DMS objects DMS(degree, minute, second) of ints and floats
DMSInputs ==
    {MkDMS(d, m, s) :
        d \in {MkNum(NInt(k)) : k \in 0..MaxMag}
              \cup {MkNum(NInt(20)), MkNum(NInt(100)), Float(20, 1), Float(21, 2), Float(-7, 1)},
        m \in {MkNum(NInt(0)), MkNum(NInt(30)), MkNum(NInt(-5)), Float(7, 1), Float(61, 2)},
        s \in {MkNum(NInt(0)), MkNum(NInt(7)), MkNum(NInt(59)), MkNum(DZero),
               Float(12, 1), Float(25, 2)}}
InitByString == Start(StringInputs \cup DMSInputs, {MkArgs(0, FALSE)})
NextByString == DoByString \/ DoToString \/ ThenByString
SpecByString == InitByString /\ [][NextByString]_vars

(***************************************************************************)
(* Properties of DMS.by_string                                              *)
(***************************************************************************)
\* the value of the i-th of the first three tokens of the str s: 0 for a
\* missing or non-numeric token
TokenValue(s, i) ==
    IF i <= Len(re_split(s)) /\ IsNum(float(re_split(s)[i])) THEN float(re_split(s)[i])
    ELSE MkNum(NZero)
\* d is the DMS of the tokens of the str s, the degree negated exactly when
\* s ends in 'S' or 'W'
Parsed(d, s) ==
    /\ IsDMS(d)
    /\ Compare(degree(d),
               IF s # <<>> /\ s[Len(s)] \in {"S", "W"}
               THEN Sub(MkNum(NZero), TokenValue(s, 1)) ELSE TokenValue(s, 1),
               "==") = True
    /\ Compare(minute(d), TokenValue(s, 2), "==") = True
    /\ Compare(second(d), TokenValue(s, 3), "==") = True
\* by_string(x) of every str x is the DMS of its tokens
ParsesEveryString == (op = "by_string") => Parsed(r, x.mag)
\* x.to_string() + "W" was parsed
WestOfRendered == pc = "two" /\ op2 = "by_string" /\ b2 = "W"
\* the DMS r2 has the degree of x negated and the minute and second of x
NegatedDegree ==
    /\ IsDMS(r2)
    /\ Compare(degree(r2), Sub(MkNum(NZero), degree(x)), "==") = True
    /\ Compare(minute(r2), minute(x), "==") = True
    /\ Compare(second(r2), second(x), "==") = True
NonNegativeDegree == Compare(degree(x), MkNum(NZero), ">=") = True

\* C22 (as claimed): DMS.by_string never fails: it uses 0 for every missing
\* or non-numeric one of the first three tokens and negates the degree
\* exactly when the str ends in 'S' or 'W'; and for a DMS x with
\* non-negative degree and integer seconds, by_string(x.to_string() + "W")
\* has degree -x.degree and the minute and second of x.
C22_ParsesLeniently ==
    /\ ParsesEveryString
    /\ (WestOfRendered /\ NonNegativeDegree /\ Whole(x.mag[3])) => NegatedDegree

\* C22 (amended): as claimed, for a DMS x whose non-negative degree and
\* whose minute and seconds are all whole numbers: to_string() shows each
\* of the three rounded to a whole number.
C22_ParsesLenientlyWhole ==
    /\ ParsesEveryString
    /\ (WestOfRendered /\ NonNegativeDegree
        /\ Whole(x.mag[1]) /\ Whole(x.mag[2]) /\ Whole(x.mag[3])) => NegatedDegree

\* a DMS of a positive whole degree and whole minute and seconds was
\* rendered and the str parsed with "W" after it
C22_Witness ==
    /\ WestOfRendered /\ Whole(x.mag[1]) /\ Whole(x.mag[2]) /\ Whole(x.mag[3])
    /\ Compare(degree(x), MkNum(NZero), ">") = True
    /\ Compare(degree(r2), MkNum(NZero), "<") = True
    /\ Parsed(r2, r.mag \o <<"W">>)


(***************************************************************************)
(* The caller of Timestamp: x is a Timestamp and y a Timestamp or a Time of *)
(* whole nanoseconds; x - y, x + y and y + x are computed, and then the     *)
(* difference is added back or the duration taken off again                 *)
(***************************************************************************)
\* y + x for a Time y
DoTimeAdd ==
    /\ isinstance(y, "Time")
    /\ First("+", "y", "x", Add(y, x))
    /\ UNCHANGED target
\* r - y for the Timestamp r = x + y
ThenSubBack ==
    /\ pc = "one"
    /\ op = "+" /\ a1 = "x"
    /\ IsTimestamp(r)
    /\ pc' = "two"
    /\ op2' = "-" /\ a2' = "r" /\ b2' = "y"
    /\ r2' = Sub(r, y)
    /\ UNCHANGED <<x, y, op, a1, b1, target, r, world>>

\* 1 700 000 000 s after the epoch, in nanoseconds: a time.time_ns() of 2023
Now2023 == BigMul(BigOf(1700000000), BigOf(1000000000))
\* the Timestamps of the first nanoseconds after t
TimestampsFrom(t) == {Timestamp_ns(MkLong(1, BigAdd(t, BigOf(k)))) : k \in 0..MaxMag}
\* Time.ns(k)
Durations == {Time_ns(LongOf(k)) : k \in (-MaxMag)..MaxMag}
InitTimestamp ==
    \E t \in {<<>>, Now2023} : Start(TimestampsFrom(t), TimestampsFrom(t) \cup Durations)
NextTimestamp == DoAdd \/ DoSub \/ DoTimeAdd \/ ThenAddBack \/ ThenSubBack
SpecTimestamp == InitTimestamp /\ [][NextTimestamp]_vars

(***************************************************************************)
(* Properties of Timestamp                                                  *)
(***************************************************************************)
\* the nanoseconds of the Time d = Time.ns(k)
WholeNs(d) == LongOf(NumOf(d.mag))
\* v is the Timestamp of t nanoseconds
IsAt(v, t) == IsTimestamp(v) /\ NumberEq(v.mag, t)
\* x - y of two Timestamps is the Time of x.ns - y.ns nanoseconds
DifferenceOfInstants ==
    (op = "-" /\ IsTimestamp(y)) =>
        /\ isinstance(r, "Time")
        /\ NumberEq(get_ns(r).mag, LongSub(x.mag, y.mag))
\* x + y, y + x and x - y are x offset by the nanoseconds of the Time y
OffsetByDuration ==
    /\ (op = "+" /\ isinstance(y, "Time")) => IsAt(r, LongAdd(x.mag, WholeNs(y)))
    /\ (op = "-" /\ isinstance(y, "Time")) => IsAt(r, LongSub(x.mag, WholeNs(y)))
\* y + (x - y) == x, (x - y) + y == x and (x + y) - y == x
Inverse ==
    /\ (pc = "two" /\ op2 = "+") => Compare(r2, x, "==") = True
    /\ (pc = "two" /\ op2 = "-") => Compare(r2, x, "==") = True

\* C23: for Timestamps a, b and a Time d of whole nanoseconds, a - b is the
\* Time of a.ns - b.ns nanoseconds, a + d, d + a and a - d are the Timestamps
\* offset by the nanoseconds of d, and b + (a - b) == a and (a + d) - d == a.
C23_TimestampArithmetic == DifferenceOfInstants /\ OffsetByDuration /\ Inverse


(***************************************************************************)
(* The caller of Timestamp.sleep: x is a Timestamp; the wall clock advances *)
(* by itself, before the call, between the statements of sleep and while    *)
(* time.sleep blocks                                                        *)
(***************************************************************************)
\* the clock reaches StartHorizon before time.sleep is entered and Horizon
\* after it, which is later than every sleep of the model ends
StartHorizon == MaxMag + 1
Horizon == 2 * MaxMag + 3
\* the nanoseconds that time.sleep(secs) blocks for
Timeout(secs) ==
    CHOOSE ns \in 0..Horizon :
        /\ Slept(ns, secs)
        /\ \A less \in 0..(ns - 1) : ~Slept(less, secs)
\* a nanosecond passes
Tick ==
    /\ clock < (IF pc = "asleep" THEN Horizon ELSE StartHorizon)
    /\ clock' = clock + 1
    /\ UNCHANGED <<x, y, pc, op, a1, b1, target, r, op2, a2, b2, r2, reading, entered, due,
                   running>>
\* target_time = self._t / 1e9; current_time = time.time();
\* sleep_time = max(0, target_time - current_time)
DoReadClock ==
    /\ pc = "start"
    /\ pc' = "read"
    /\ op' = "sleep" /\ a1' = "x"
    /\ reading' = clock
    /\ r' = SleepTime(TargetTime(x), time_time(clock))
    /\ UNCHANGED <<x, y, b1, target, op2, a2, b2, r2, clock, entered, due, running>>
\* time.sleep(sleep_time) is entered: the thread is blocked for the least
\* number of nanoseconds that is sleep_time seconds at least
DoEnterSleep ==
    /\ pc = "read"
    /\ pc' = "asleep"
    /\ entered' = clock
    /\ due' = Timeout(r)
    /\ UNCHANGED <<x, y, op, a1, b1, target, r, op2, a2, b2, r2, clock, reading, running>>
\* time.sleep returns, and sleep with it
DoReturn ==
    /\ pc = "asleep"
    /\ clock - entered >= due
    /\ pc' = "returned"
    /\ UNCHANGED <<x, y, op, a1, b1, target, r, op2, a2, b2, r2, world>>

InitSleep == Start(TimestampsFrom(<<>>), {None})
NextSleep == Tick \/ DoReadClock \/ DoEnterSleep \/ DoReturn
\* the thread of the caller goes from one statement of sleep to the next
Proceeds(from, to) == pc = from /\ pc' = to
\* the clock runs and the thread of the caller is scheduled
SpecSleep ==
    /\ InitSleep /\ [][NextSleep]_vars
    /\ WF_clock(Tick)
    /\ WF_pc(Proceeds("start", "read")) /\ WF_pc(Proceeds("read", "asleep"))
    /\ WF_pc(DoReturn)

(***************************************************************************)
(* Properties of Timestamp.sleep                                            *)
(***************************************************************************)
\* the instant of x in nanoseconds
Instant == IntOf(x.mag.big)
Called == pc \in {"read", "asleep", "returned"}
\* an instant that is not after the reading of the clock is not waited for
PastIsNotAwaited ==
    /\ (Called /\ Instant <= reading) => r = MkNum(NZero)
    /\ (pc \in {"asleep", "returned"} /\ Instant <= reading) => due = 0
\* an instant after the reading is waited for max(0, target - now)
FutureIsAwaited ==
    (Called /\ Instant > reading) =>
        /\ Compare(r, MkNum(NZero), ">") = True
        /\ r = Sub(MkNum(TargetTime(x)), MkNum(time_time(reading)))
\* sleep does not return before the clock has reached the instant
NotBeforeInstant == (pc = "returned") => clock >= Instant

ThenSwapped ==
    /\ op = "*" /\ a1 = "x" /\ b1 = "y"
    /\ Then("*", "y", "x", Mul(y, x))
ProductPrefixes == {BASE, "k", "m"}
\* Distances and Times in every unity, with several prefixes and powers
ProductsOf(cls) ==
    {Q(cls, m, u.name, p, w) :
        m \in 1..MaxMag, u \in UnitiesOf(cls), p \in ProductPrefixes, w \in 1..MaxPower}
Factors == ProductsOf("Distance") \cup ProductsOf("Time") \cup {d1, d2}
InitProduct ==
    /\ Start(Factors, Factors)
    /\ x.cls = y.cls /\ x.power = y.power
NextProduct == DoMul \/ ThenSwapped
SpecProduct == InitProduct /\ [][NextProduct]_vars

(***************************************************************************)
(* Properties of the product of two quantities of one dimension             *)
(***************************************************************************)
\* the first member of the unity enumeration of q, whose factor is 1
BaseUnity(q) == U(q.unity.type, UnityNames[q.unity.type][1])
\* q read in the base unity with the BASE prefix
Read(q) == get(q, BaseUnity(q), BASE)
\* the physical value of q in the base unity:
\* magnitude * (unity factor * prefix factor)^power
PhysicalValue(q) ==
    NMul(q.mag, NPow(NMul(convert_to_base(q.unity), as_float(q.prefix)), q.power))
\* the product p of a and b has the sum of their powers and, read in the
\* base unity, the product of their base values
IsProductOf(p, a, b) ==
    /\ IsQty(p) /\ p.cls = a.cls
    /\ p.power = a.power + b.power
    /\ Read(p) = MkNum(NMul(PhysicalValue(a), PhysicalValue(b)))

\* C25 (as claimed): for x and y of one dimension and of equal power, in
\* whatever unities and prefixes, x * y and y * x have power
\* x.power + y.power and read the same in the base unity with the BASE
\* prefix: the product of the base values of x and y (25 000 000 m^2 for
\* Distance.m(5000) and Distance.km(5)).
C25_ProductCommutesInValue ==
    /\ (FirstWas("*") /\ pc \in {"one", "two"}) => IsProductOf(r, x, y)
    /\ (FirstWas("*") /\ pc = "two") =>
           /\ IsProductOf(r2, y, x)
           /\ Read(r2) = Read(r)
    /\ (FirstWas("*") /\ pc = "two" /\ x = d1 /\ y = d2) =>
           /\ Read(r) = MkNum(NInt(25000000))
           /\ Read(r2) = MkNum(NInt(25000000))


(***************************************************************************)
(* The caller that compares two Distances and then hashes both              *)
(***************************************************************************)
\* hash(x) == hash(y)
ThenHash ==
    /\ pc = "one"
    /\ op \in Rels
    /\ pc' = "two"
    /\ op2' = "hash" /\ a2' = "x" /\ b2' = "y"
    /\ r2' = SameHash(x, y)
    /\ UNCHANGED <<x, y, op, a1, b1, target, r, world>>
\* the metres of a kilometre
Kilo == 1000
\* Distances in m and in km, of which some are equal to one another
HashInputs ==
    {Q("Distance", m * Kilo, "M", BASE, 1) : m \in 0..MaxMag}
    \cup {Q("Distance", m, "M", p, w) : m \in 0..MaxMag, p \in {BASE, "k"},
                                        w \in 1..MaxPower}
    \cup {d1, d2}
InitHash == Start(HashInputs, HashInputs)
NextHash == DoCompare \/ ThenHash
SpecHash == InitHash /\ [][NextHash]_vars

(***************************************************************************)
(* Properties of Quantity.__hash__                                          *)
(***************************************************************************)
\* x == y was evaluated, then hash(x) == hash(y)
Hashed == pc = "two" /\ op = "==" /\ op2 = "hash"

\* C26 (as claimed): whenever x == y is True, hash(x) == hash(y); so it is
\* for Distance.m(5000) and Distance.km(5).
C26_EqualHashEqual ==
    /\ (Hashed /\ r = True) => r2 = True
    /\ (Hashed /\ x = d1 /\ y = d2) => (r = True /\ r2 = True)


(***************************************************************************)
(* The caller of the operators that rebuild a quantity of the class of      *)
(* their operand: abs(x), 1 / x and x ** y                                  *)
(***************************************************************************)
\* the operand of a call by its name: the number 1, nothing, x, y or r
Argument(name) ==
    CASE name = "1" -> One [] name = "" -> None [] OTHER -> Operand(name)
\* abs(x), 1 / x and x ** y with the method each of them calls
GenericCalls ==
    {[op |-> "abs", method |-> "__abs__", a |-> "x", b |-> ""],
     [op |-> "1/", method |-> "__truediv__", a |-> "1", b |-> "x"],
     [op |-> "**", method |-> "__pow__", a |-> "x", b |-> "y"]}
\* abs(x), 1 / x or x ** y
DoGeneric ==
    \E call \in GenericCalls :
        /\ First(call.op, call.a, call.b,
                 Invoke(call.method, Argument(call.a), Argument(call.b)))
        /\ UNCHANGED target
\* quantities of every class, of positive and of negative magnitude
GenericInputs ==
    ReciprocalInputs
    \cup {Q("Distance", -3, "M", "k", 1), Q("Time", -2, "S", BASE, 2),
          Q("Angle", -90, "DEG", BASE, 1), Q("Latitude", -30, "DEG", BASE, 1),
          Q("Longitude", -120, "DEG", BASE, 1), Q("Speed", -1, "KT", BASE, 1)}
InitGeneric == Start(GenericInputs, {MkNum(NInt(2)), MkNum(NInt(3))})
NextGeneric == DoGeneric
SpecGeneric == InitGeneric /\ [][NextGeneric]_vars

(***************************************************************************)
(* Properties of abs, 1 / x and x ** y                                      *)
(***************************************************************************)
\* C27 (as claimed): for every quantity x of every class, Bearing and
\* RelativeBearing among them, abs(x) is a quantity of the class of x with
\* magnitude |x.magnitude| and the unity, prefix and power of x, and 1 / x
\* and x ** y are quantities too (none of the three raises).
C27_RebuildsEveryClass ==
    /\ op = "abs" =>
           r = MkQty(x.cls, NAbs(x.mag), x.unity, x.prefix, x.power)
    /\ op \in {"1/", "**"} => IsQty(r)


(***************************************************************************)
(* Properties of the references of a RelativeBearing                        *)
(***************************************************************************)
\* the RelativeBearing r was made of x under the reference ref and read by
\* the getter
ReadRelative(ref, getter) ==
    pc = "two" /\ op = "RelativeBearing" /\ b1 = ref /\ op2 = getter
\* v is (2 pi - x) mod 2 pi
IsNegated(v) ==
    /\ IsNum(v) /\ InTurn(v.mag)
    /\ Congruent(v, Sub(TwoPi, get_rad(x)))

\* C28 (as claimed): RelativeBearing.cw_rad(x).get_ccw_rad() and
\* RelativeBearing.ccw_rad(x).get_cw_rad() are (2 pi - x) mod 2 pi for every
\* x, and a relative bearing of zero is zero in both references.
C28_ClockwiseNegates ==
    /\ ReadRelative("CW", "get_ccw_rad") => IsNegated(r2)
    /\ ReadRelative("CCW", "get_cw_rad") => IsNegated(r2)
    /\ (ReadRelative("CW", "get_ccw_rad") /\ FIsZero(x.mag)) => r2 = MkNum(NZero)


(***************************************************************************)
(* The caller that prints two prefixes, or two Distances: r is str(x) and   *)
(* r2 is str(y)                                                             *)
(***************************************************************************)
\* str(x)
DoStr == First("str", "x", "", Invoke("__str__", x, None)) /\ UNCHANGED target
\* str(y)
ThenStr ==
    /\ pc = "one"
    /\ op = "str"
    /\ pc' = "two"
    /\ op2' = "str" /\ a2' = "y" /\ b2' = ""
    /\ r2' = Invoke("__str__", y, None)
    /\ UNCHANGED <<x, y, op, a1, b1, target, r, world>>
\* the members of Prefix
Prefixes == {MkPrefix(p) : p \in Prefix}
\* Distances of one magnitude in metres with every prefix
Prefixed == {Q("Distance", MaxMag, "M", p, w) : p \in Prefix, w \in 1..MaxPower}
InitStr == Start(Prefixes, Prefixes) \/ Start(Prefixed, Prefixed)
NextStr == DoStr \/ ThenStr
SpecStr == InitStr /\ [][NextStr]_vars

(***************************************************************************)
(* Properties of Prefix.__str__ and Quantity.__str__                        *)
(***************************************************************************)
\* C29 (as claimed): two different prefixes x and y have different strings,
\* and so have two quantities x and y that differ in their prefix.
C29_PrefixesPrintApart ==
    (pc = "two" /\ op2 = "str" /\ x # y) =>
        /\ IsStr(r) /\ IsStr(r2)
        /\ r # r2


(***************************************************************************)
(* subprocess.py: run_process.  The child process writes lines to its       *)
(* stdout pipe and chunks to its stderr pipe, in the order of its program,  *)
(* and exits; a write blocks while its pipe is full.  The caller of         *)
(* run_process reads the pipes as the statements of run_process do.         *)
(***************************************************************************)
\* the writes of a child process are MaxWrites at most
MaxWrites == 3
\* the lines, and the chunks, that a pipe holds before a write blocks
PipeCapacity == 2
Streams == {"stdout", "stderr"}
Programs == UNION {[1..n -> Streams] : n \in 0..MaxWrites}
ExitStatuses == {0, 1}
\* the k-th line a child writes to stdout
LineOf(k) == <<" ", Digits[k + 1], "\n">>
\* subprocess.Popen(comand, shell=True, stdout=PIPE, stderr=PIPE, text=True)
\* for a command that writes as the program says and exits with the status
Popen(program, status) ==
    [todo |-> program, lines |-> 0, stdout |-> <<>>, stderr |-> 0, exited |-> FALSE,
     status |-> status]
\* process.poll(), -1 for None
poll(p) == IF p.exited THEN p.status ELSE -1

\* the variables of the other callers
elsewhere == <<x, y, pc, op, a1, b1, target, r, op2, a2, b2, r2, clock, reading, entered, due>>

\* the child writes its next line to stdout
ChildWritesLine ==
    /\ caller.pc # ""
    /\ process.todo # <<>> /\ Head(process.todo) = "stdout"
    /\ Len(process.stdout) < PipeCapacity
    /\ process' = [process EXCEPT !.todo = Tail(@), !.lines = @ + 1,
                                   !.stdout = Append(@, LineOf(process.lines + 1))]
    /\ UNCHANGED <<caller, elsewhere>>
\* the child writes a chunk to stderr
ChildWritesError ==
    /\ caller.pc # ""
    /\ process.todo # <<>> /\ Head(process.todo) = "stderr"
    /\ process.stderr < PipeCapacity
    /\ process' = [process EXCEPT !.todo = Tail(@), !.stderr = @ + 1]
    /\ UNCHANGED <<caller, elsewhere>>
\* the child has written everything and exits, which closes its ends of the
\* pipes
ChildExits ==
    /\ caller.pc # ""
    /\ process.todo = <<>> /\ ~process.exited
    /\ process' = [process EXCEPT !.exited = TRUE]
    /\ UNCHANGED <<caller, elsewhere>>
\* one round of the while loop: process.stdout.readline() returns a line,
\* which is passed to on_output stripped, or it returns '' at the end of
\* the file, and the loop is left when process.poll() is not None
ReadLine ==
    /\ caller.pc = "readline"
    /\ \/ /\ process.stdout # <<>>
          /\ process' = [process EXCEPT !.stdout = Tail(@)]
          /\ caller' = [caller EXCEPT !.calls = Append(@, strip(Head(process.stdout)))]
       \/ /\ process.stdout = <<>> /\ process.exited
          /\ caller' = [caller EXCEPT !.returncode = poll(process),
                                     !.pc = IF poll(process) # -1 THEN "read" ELSE @]
          /\ UNCHANGED process
    /\ UNCHANGED elsewhere
\* stderr_output = process.stderr.read(), which returns at the end of the
\* file, and the test of process.returncode
ReadErrors ==
    /\ caller.pc = "read"
    /\ process.exited
    /\ process' = [process EXCEPT !.stderr = 0]
    /\ caller' = [caller EXCEPT !.stderr_output = process.stderr,
                               !.pc = IF caller.returncode # 0 THEN "raised"
                                      ELSE "returned"]
    /\ UNCHANGED elsewhere

InitRun ==
    /\ Operands({None}, {None}) /\ Stopped
    /\ process \in {Popen(program, status) : program \in Programs, status \in ExitStatuses}
    /\ caller = [NoCaller EXCEPT !.pc = "readline"]
NextRun == ChildWritesLine \/ ChildWritesError \/ ChildExits \/ ReadLine \/ ReadErrors
\* the child and the caller are both scheduled
SpecRun ==
    /\ InitRun /\ [][NextRun]_vars
    /\ WF_vars(ChildWritesLine) /\ WF_vars(ChildWritesError) /\ WF_vars(ChildExits)
    /\ WF_vars(ReadLine) /\ WF_vars(ReadErrors)

(***************************************************************************)
(* Properties of run_process                                                *)
(***************************************************************************)
\* run_process has returned or raised RuntimeError
Finished == caller.pc \in {"returned", "raised"}
\* on_output was called once with every line of stdout, stripped, in order
CalledPerLine ==
    /\ process.todo = <<>>
    /\ caller.calls = [k \in 1..process.lines |-> <<Digits[k + 1]>>]
\* RuntimeError is raised exactly when the exit status is not 0
RaisedIfFailed == (caller.pc = "raised") <=> (process.status # 0)

\* C30 (as claimed): for every child that writes a finite output and exits,
\* whatever the order and the amounts of its writes to stdout and stderr,
\* run_process eventually returns or raises RuntimeError; it has then
\* called on_output once per line of stdout in order, and it raises exactly
\* when the exit status is not 0.
C30_RunProcessFinishes ==
    /\ <>Finished
    /\ [](Finished => (CalledPerLine /\ RaisedIfFailed))
====
